---- MODULE Spec2Model ----
(***************************************************************************)
(* Duplicate engine of the floppy-disk catalogue (floppies/models.py):     *)
(* Entry.get_file_hashes, is_duplicate_of, find_duplicates,                *)
(* mark_as_duplicate, has_duplicates and the symmetrical many-to-many      *)
(* relation Entry.duplicates, over the corpus of ZipArchive / ZipContent   *)
(* rows that the ingestion script creates.                                 *)
(***************************************************************************)
EXTENDS Integers, FiniteSets, Sequences, TLC

\* ---- bounds of the model ----
NumEntries == 3     \* Entry rows in the corpus
MaxArchives == 3    \* ZipArchive rows in the corpus
MaxContents == 3    \* ZipContent rows in the corpus

\* ---- values ----
\* Python None (ZipContent.md5sum is null=True).
None == "None"
Md5Values == {None, "abc123", "def456"}
\* ZipContent.file: copies of one disk name their files differently.
FileNames == {"file1.txt", "copy_file1.txt"}
FileNamesOf(e) == IF e = 1 THEN {"file1.txt"} ELSE {"copy_file1.txt"}
\* ZipArchive.archive: the path of the k-th zip file of an entry's folder.
ArchivePaths == 1..MaxArchives

EntryIds == 1..NumEntries

\* A Python object handed to the engine: an Entry row or something else.
EntryObj(i) == [type |-> "Entry", id |-> i]
Entries == {EntryObj(i) : i \in EntryIds}
NonEntries == {[type |-> "NoneType", id |-> 0],
               [type |-> "str", id |-> 0],
               [type |-> "int", id |-> 123]}
\* What a caller may pass as other_entry.
PyObjects == Entries \cup NonEntries

VARIABLES
    ziparchives,   \* ZipArchive rows: [archive, entry]; an entry's archives are numbered 1, 2, ...
    zipcontents,   \* ZipContent rows: [zipArchive, file, md5sum]
    duplicates,    \* through table of Entry.duplicates: rows <<from_entry_id, to_entry_id, k>>,
                   \* k numbering the rows of one (from, to) pair
    last,          \* the last call: its name, the type of its argument, its return
                   \* value, the through rows it wrote
    cmd,           \* the run of the find_duplicates management command: its place
                   \* in handle(), its options and its local variables
    callers,       \* two concurrent calls of mark_as_duplicate: for each its place
                   \* in the call, its arguments and its return value
    a2r,           \* one call of read_a2r_datastream: the stream and its cursor, the
                   \* place in the function, a2r_data, the exception raised
    metachunk,     \* the MetaChunk row disk_mustering makes of a decoded META
                   \* record: the record, the language stored, the exception raised
    sync           \* one call of pull_from_archive: the entry, the metadata of
                   \* the archive item, the result of the call

vars == <<ziparchives, zipcontents, duplicates, last, cmd, callers, a2r, metachunk, sync>>

\* The two processes (two bulk scans, two admin actions, two shells) that call
\* mark_as_duplicate at the same time
Callers == {"p", "q"}

ZipArchiveRows == [archive : ArchivePaths, entry : EntryIds]
ZipContentRows == [zipArchive : ZipArchiveRows, file : FileNames, md5sum : Md5Values]

TypeOK ==
    /\ ziparchives \subseteq ZipArchiveRows
    /\ zipcontents \subseteq ZipContentRows
    /\ \A c \in zipcontents : c.zipArchive \in ziparchives
    /\ duplicates \subseteq EntryIds \X EntryIds \X Nat
    /\ last.rows \in Nat /\ last.raised \in BOOLEAN
    /\ last.op \in {"get_file_hashes", "find_duplicates"} \/ last.result \in BOOLEAN

\* ---- the ORM's related managers ----
\* entry.ziparchives.all()
ziparchives_all(self) == {z \in ziparchives : z.entry = self.id}
\* zip_archive.zipcontent_set.all()
zipcontent_set_all(z) == {c \in zipcontents : c.zipArchive = z}
\* entry.duplicates.all(): the entries the through table relates to this one
duplicates_all(self) == {r[2] : r \in {r \in duplicates : r[1] = self.id}}
\* entry.duplicates.count(): the through rows from this entry
duplicates_count(self) == Cardinality({r \in duplicates : r[1] = self.id})

\* Python truthiness of an md5sum: None and the empty string are falsy.
Truthy(md5sum) == md5sum # None /\ md5sum # ""

\* get_file_hashes without the "if zip_content.md5sum" test
get_file_hashes_unfiltered(self) ==
    UNION { {c.md5sum : c \in zipcontent_set_all(z)} : z \in ziparchives_all(self) }

\* Entry.get_file_hashes
get_file_hashes(self) ==
    UNION { {c.md5sum : c \in {c \in zipcontent_set_all(z) : Truthy(c.md5sum)}}
            : z \in ziparchives_all(self) }

\* is_duplicate_of accepting any overlap of the two hash sets
is_duplicate_of_overlap(self, other_entry) ==
    IF other_entry.type # "Entry" THEN FALSE
    ELSE IF self.id = other_entry.id THEN FALSE
    ELSE get_file_hashes(self) \cap get_file_hashes(other_entry) # {}

\* is_duplicate_of testing inclusion instead of equality
is_duplicate_of_subset(self, other_entry) ==
    IF other_entry.type # "Entry" THEN FALSE
    ELSE IF self.id = other_entry.id THEN FALSE
    ELSE LET self_hashes == get_file_hashes(self)
             other_hashes == get_file_hashes(other_entry)
         IN IF self_hashes = {} \/ other_hashes = {} THEN FALSE
            ELSE self_hashes \subseteq other_hashes

\* is_duplicate_of without the "self.id == other_entry.id" test
is_duplicate_of_no_self_test(self, other_entry) ==
    IF other_entry.type # "Entry" THEN FALSE
    ELSE LET self_hashes == get_file_hashes(self)
             other_hashes == get_file_hashes(other_entry)
         IN IF self_hashes = {} \/ other_hashes = {} THEN FALSE
            ELSE self_hashes = other_hashes

\* is_duplicate_of without the "must have files to compare" test
is_duplicate_of_no_empty_test(self, other_entry) ==
    IF other_entry.type # "Entry" THEN FALSE
    ELSE IF self.id = other_entry.id THEN FALSE
    ELSE get_file_hashes(self) = get_file_hashes(other_entry)

\* Entry.is_duplicate_of
is_duplicate_of(self, other_entry) ==
    IF other_entry.type # "Entry" THEN FALSE
    ELSE IF self.id = other_entry.id THEN FALSE
    ELSE LET self_hashes == get_file_hashes(self)
             other_hashes == get_file_hashes(other_entry)
         IN IF self_hashes = {} \/ other_hashes = {} THEN FALSE
            ELSE self_hashes = other_hashes

\* is_duplicate_of reading other_entry.id without the isinstance test before it
is_duplicate_of_raises_untyped(self, other_entry) ==
    other_entry.type # "Entry"

\* Whether Entry.is_duplicate_of raises: other_entry.id and
\* other_entry.get_file_hashes() are attributes of an Entry only, and the
\* isinstance test returns before either is read.
is_duplicate_of_raises(self, other_entry) ==
    IF other_entry.type # "Entry" THEN FALSE
    ELSE other_entry.type # "Entry"

\* find_duplicates stopping at the first match
find_duplicates_first_match(self) ==
    IF ziparchives_all(self) = {} THEN {}
    ELSE IF get_file_hashes(self) = {} THEN {}
    ELSE LET candidates == {c \in Entries : c.id # self.id /\ ziparchives_all(c) # {}}
             found == {c.id : c \in {c \in candidates : is_duplicate_of(self, c)}}
         IN {i \in found : \A j \in found : i <= j}

\* Entry.find_duplicates: the ids of the returned queryset
find_duplicates(self) ==
    IF ziparchives_all(self) = {} THEN {}
    ELSE IF get_file_hashes(self) = {} THEN {}
    ELSE LET candidates == {c \in Entries : c.id # self.id /\ ziparchives_all(c) # {}}
         IN {c.id : c \in {c \in candidates : is_duplicate_of(self, c)}}

\* Entry.has_duplicates
has_duplicates(self) == duplicates_all(self) # {}

\* One direction of duplicates.add: the row is inserted only when it is missing.
through_rows(d, from, to) == {r \in d : r[1] = from /\ r[2] = to}

\* add_items inserting its row without looking for an existing one
add_items_unchecked(d, from, to) ==
    d \cup {<<from, to, Cardinality(through_rows(d, from, to)) + 1>>}

add_items(d, from, to) ==
    IF through_rows(d, from, to) = {} THEN d \cup {<<from, to, 1>>} ELSE d

\* duplicates.set([other_entry]) in the place of add: the other rows of self go
duplicates_set(self, other_entry) ==
    add_items(add_items({r \in duplicates : r[1] # self.id /\ r[2] # self.id},
                        self.id, other_entry.id), other_entry.id, self.id)

\* duplicates.add of a relation that is not symmetrical
duplicates_add_one_way(self, other_entry) ==
    add_items(duplicates, self.id, other_entry.id)

\* self.duplicates.add(other_entry): symmetrical=True adds the row, then its mirror.
duplicates_add(self, other_entry) ==
    add_items(add_items(duplicates, self.id, other_entry.id), other_entry.id, self.id)

\* duplicates.clear of a relation that is not symmetrical
duplicates_clear_one_way(self) ==
    {r \in duplicates : r[1] # self.id}

\* entry.duplicates.clear(): symmetrical=True deletes the rows of both directions.
duplicates_clear(self) ==
    {r \in duplicates : r[1] # self.id /\ r[2] # self.id}

Init ==
    /\ ziparchives = {}
    /\ zipcontents = {}
    /\ duplicates = {}
    /\ last = [op |-> "none", arg |-> "none", raised |-> FALSE, result |-> FALSE, rows |-> 0]
    /\ a2r = [pc |-> "idle", container |-> <<>>, data_stream |-> <<>>, pos |-> 0,
              headers_at |-> <<>>, a2r_data |-> [INFO |-> <<>>, META |-> <<>>],
              raises |-> "none"]
    /\ callers = [c \in Callers |-> [pc |-> "idle", self |-> 0, other |-> 0, result |-> FALSE]]
    /\ metachunk = [pc |-> "idle", META |-> <<>>, language |-> <<>>, raises |-> "none"]
    /\ sync = [pc |-> "idle",
               entry |-> [title |-> <<>>, description |-> <<>>, mediatype |-> "SW",
                          publicationDate |-> <<>>, creators |-> {}, subjects |-> {},
                          collections |-> {}, archive_sync_status |-> "NC",
                          sync_notes |-> <<>>],
               ia |-> "ok", archive_item |-> <<>>, dry_run |-> FALSE, saved |-> FALSE,
               result |-> [success |-> FALSE, changes |-> <<>>, error |-> "None"],
               check |-> [status |-> "NC", in_sync |-> FALSE, differences |-> <<>>]]
    /\ cmd = [pc |-> "idle", dry_run |-> FALSE, queryset |-> {},
              scanned |-> {}, duplicates_found |-> <<>>, calls |-> 0,
              marked_count |-> 0, report |-> "none"]

\* ---- ingestion (scripts/disk_mustering.py): get_or_create of the rows ----
\* The next zip file of entry e's folder: a path the entry does not have yet
\* (get_or_create of a path it has changes nothing).
AddZipArchive(e) ==
    /\ Cardinality(ziparchives) < MaxArchives
    /\ ziparchives' = ziparchives \cup
          {[archive |-> Cardinality({z \in ziparchives : z.entry = e}) + 1, entry |-> e]}
    /\ last' = [op |-> "ingest", arg |-> "none", raised |-> FALSE, result |-> FALSE, rows |-> 0]
    /\ UNCHANGED <<metachunk, sync, a2r, callers, cmd, zipcontents, duplicates>>

AddZipContent(z, f, m) ==
    /\ z \in ziparchives
    /\ Cardinality(zipcontents \cup {[zipArchive |-> z, file |-> f, md5sum |-> m]}) <= MaxContents
    /\ zipcontents' = zipcontents \cup {[zipArchive |-> z, file |-> f, md5sum |-> m]}
    /\ last' = [op |-> "ingest", arg |-> "none", raised |-> FALSE, result |-> FALSE, rows |-> 0]
    /\ UNCHANGED <<metachunk, sync, a2r, callers, cmd, ziparchives, duplicates>>

\* ---- engine calls ----
\* mark_as_duplicate trusting its caller instead of calling is_duplicate_of
MarkAsDuplicate_trusting(a, x) ==
    /\ duplicates' = duplicates_add(a, x)
    /\ last' = [op |-> "mark_as_duplicate", arg |-> x.type, raised |-> FALSE, result |-> TRUE,
                rows |-> Cardinality(duplicates') - Cardinality(duplicates)]
    /\ UNCHANGED <<metachunk, sync, a2r, callers, cmd, ziparchives, zipcontents>>

\* mark_as_duplicate adding the edge its caller found earlier, unchecked
mark_as_duplicate_trusting(a, x) ==
    /\ duplicates' = duplicates_add(a, x)
    /\ last' = [op |-> "mark_as_duplicate", arg |-> x.type, raised |-> FALSE,
                result |-> TRUE,
                rows |-> Cardinality(duplicates') - Cardinality(duplicates)]

\* Entry.mark_as_duplicate: what the call writes and returns
mark_as_duplicate(a, x) ==
    IF is_duplicate_of_raises(a, x)
    THEN /\ duplicates' = duplicates
         /\ last' = [op |-> "mark_as_duplicate", arg |-> x.type, raised |-> TRUE,
                     result |-> FALSE, rows |-> 0]
    ELSE IF is_duplicate_of(a, x)
    THEN /\ duplicates' = duplicates_add(a, x)
         /\ last' = [op |-> "mark_as_duplicate", arg |-> x.type, raised |-> FALSE,
                     result |-> TRUE,
                     rows |-> Cardinality(duplicates') - Cardinality(duplicates)]
    ELSE /\ duplicates' = duplicates
         /\ last' = [op |-> "mark_as_duplicate", arg |-> x.type, raised |-> FALSE,
                     result |-> FALSE, rows |-> 0]

\* Entry.mark_as_duplicate called on its own: from the tests or a shell
MarkAsDuplicate(a, x) ==
    /\ mark_as_duplicate(a, x)
    /\ UNCHANGED <<metachunk, sync, a2r, callers, cmd, ziparchives, zipcontents>>

\* entry.duplicates.clear(), as the tests, the admin action and the command call it
ClearDuplicates(a) ==
    /\ duplicates' = duplicates_clear(a)
    /\ last' = [op |-> "clear", arg |-> "none", raised |-> FALSE, result |-> FALSE,
                rows |-> Cardinality(duplicates) - Cardinality(duplicates')]
    /\ UNCHANGED <<metachunk, sync, a2r, callers, cmd, ziparchives, zipcontents>>

\* Entry.has_duplicates
HasDuplicates(a) ==
    /\ last' = [op |-> "has_duplicates", arg |-> "none", raised |-> FALSE,
                result |-> has_duplicates(a), rows |-> 0]
    /\ UNCHANGED <<metachunk, sync, a2r, callers, cmd, ziparchives, zipcontents, duplicates>>

\* Entry.get_file_hashes
GetFileHashes(a) ==
    /\ last' = [op |-> "get_file_hashes", arg |-> "none", raised |-> FALSE,
                result |-> get_file_hashes(a), rows |-> 0]
    /\ UNCHANGED <<metachunk, sync, a2r, callers, cmd, ziparchives, zipcontents, duplicates>>

\* Entry.is_duplicate_of
IsDuplicateOf(a, x) ==
    /\ last' = [op |-> "is_duplicate_of", arg |-> x.type,
                raised |-> is_duplicate_of_raises(a, x),
                result |-> ~is_duplicate_of_raises(a, x) /\ is_duplicate_of(a, x),
                rows |-> 0]
    /\ UNCHANGED <<metachunk, sync, a2r, callers, cmd, ziparchives, zipcontents, duplicates>>

\* Entry.find_duplicates
FindDuplicates(a) ==
    /\ last' = [op |-> "find_duplicates", arg |-> "none", raised |-> FALSE,
                result |-> find_duplicates(a), rows |-> 0]
    /\ UNCHANGED <<metachunk, sync, a2r, callers, cmd, ziparchives, zipcontents, duplicates>>

Next ==
    \/ \E e \in EntryIds : AddZipArchive(e)
    \/ \E z \in ziparchives : \E f \in FileNamesOf(z.entry), m \in Md5Values : AddZipContent(z, f, m)
    \/ \E a \in Entries, x \in Entries : MarkAsDuplicate(a, x)
    \/ \E a \in Entries : ClearDuplicates(a)
    \/ \E a \in Entries : HasDuplicates(a)

Spec == Init /\ [][Next]_vars

\* The corpus alone, as ingestion builds it: what the read-only calls
\* get_file_hashes, is_duplicate_of and find_duplicates depend on.
NextCorpus ==
    \/ \E e \in EntryIds : AddZipArchive(e)
    \/ \E z \in ziparchives : \E f \in FileNamesOf(z.entry), m \in Md5Values : AddZipContent(z, f, m)

SpecCorpus == Init /\ [][NextCorpus]_vars

\* Every call of the duplicate engine, the read-only ones included.
NextEngine ==
    \/ Next
    \/ \E a \in Entries : GetFileHashes(a)
    \/ \E a \in Entries, x \in Entries : IsDuplicateOf(a, x)
    \/ \E a \in Entries : FindDuplicates(a)

SpecEngine == Init /\ [][NextEngine]_vars

\* The engine called with arguments of any type, as
\* test_is_duplicate_of_invalid_type calls it.
NextInvalid ==
    \/ \E e \in EntryIds : AddZipArchive(e)
    \/ \E z \in ziparchives : \E f \in FileNamesOf(z.entry), m \in Md5Values : AddZipContent(z, f, m)
    \/ \E a \in Entries, x \in PyObjects : MarkAsDuplicate(a, x)
    \/ \E a \in Entries, x \in NonEntries : IsDuplicateOf(a, x)

SpecInvalid == Init /\ [][NextInvalid]_vars

(***************************************************************************)
(* The find_duplicates management command                                  *)
(* (floppies/management/commands/find_duplicates.py)                       *)
(***************************************************************************)
NoIdentifier == 0

\* the pair recorded as it was found, without sorted()
sorted_pair_as_found(a, b) == <<a, b>>

\* tuple(sorted([entry.id, duplicate.id]))
sorted_pair(a, b) == IF a <= b THEN <<a, b>> ELSE <<b, a>>

\* every pair of the entries that are in some pair found, in the place of the
\* pairs found
pairs_of_entries_found(found) ==
    {<<a, b>> : a, b \in UNION {{found[i].entry1, found[i].entry2} : i \in 1..Len(found)}}

\* [d['pair'] for d in duplicates_found]
pairs_of(found) == {found[i].pair : i \in 1..Len(found)}

\* The inner loop of the scan: the duplicates of one entry, in the order the
\* database returns them (by id), each recorded unless its pair is there.
RECURSIVE record_pairs(_, _, _)
record_pairs(found, entry, duplicate_entries) ==
    IF duplicate_entries = {} THEN found
    ELSE LET duplicate == CHOOSE d \in duplicate_entries : \A o \in duplicate_entries : d <= o
             pair == sorted_pair(entry, duplicate)
         IN record_pairs(IF pair \in pairs_of(found) THEN found
                         ELSE Append(found, [pair |-> pair, entry1 |-> entry,
                                             entry2 |-> duplicate]),
                         entry, duplicate_entries \ {duplicate})

\* Entry.objects.filter(ziparchives__isnull=False).distinct()
entries_with_ziparchives == {e \in EntryIds : ziparchives_all(EntryObj(e)) # {}}

\* Entry.objects.filter(duplicates__isnull=False).distinct()
entries_with_duplicates == {e \in EntryIds : duplicates_all(EntryObj(e)) # {}}

\* The --clear loop: entry.duplicates.clear() for every entry that has duplicates
clear_marks ==
    {r \in duplicates : \A e \in entries_with_duplicates : r[1] # e /\ r[2] # e}

\* an identifier no entry has
UnknownIdentifier == NumEntries + 1

\* the --clear block run whatever --dry-run says
CmdStart_clearing(dry_run, clear, identifier) ==
    /\ cmd.pc = "idle"
    /\ duplicates' = IF clear THEN clear_marks ELSE duplicates
    /\ last' = [op |-> IF clear THEN "clear" ELSE "handle", arg |-> "none",
                raised |-> FALSE, result |-> FALSE,
                rows |-> Cardinality(duplicates) - Cardinality(duplicates')]
    /\ cmd' = [pc |-> IF identifier = UnknownIdentifier THEN "done" ELSE "scan",
               dry_run |-> dry_run,
               queryset |-> IF identifier = UnknownIdentifier THEN {}
                            ELSE IF identifier # NoIdentifier THEN {identifier}
                            ELSE entries_with_ziparchives,
               scanned |-> {}, duplicates_found |-> <<>>, calls |-> 0,
               marked_count |-> 0,
               report |-> IF identifier = UnknownIdentifier THEN "CommandError" ELSE "none"]
    /\ UNCHANGED <<metachunk, sync, a2r, callers, ziparchives, zipcontents>>

\* handle() up to the scan loop: the options, the --clear block (which under
\* --dry-run only counts), the queryset, and the CommandError raised for an
\* identifier no entry has.
CmdStart(dry_run, clear, identifier) ==
    /\ cmd.pc = "idle"
    /\ duplicates' = IF clear /\ ~dry_run THEN clear_marks ELSE duplicates
    /\ last' = [op |-> IF ~clear THEN "handle"
                       ELSE IF dry_run THEN "would_clear" ELSE "clear",
                arg |-> "none", raised |-> FALSE, result |-> FALSE,
                rows |-> Cardinality(duplicates) - Cardinality(duplicates')]
    /\ cmd' = [pc |-> IF identifier = UnknownIdentifier THEN "done" ELSE "scan",
               dry_run |-> dry_run,
               queryset |-> IF identifier = UnknownIdentifier THEN {}
                            ELSE IF identifier # NoIdentifier THEN {identifier}
                            ELSE entries_with_ziparchives,
               scanned |-> {}, duplicates_found |-> <<>>, calls |-> 0,
               marked_count |-> 0,
               report |-> IF identifier = UnknownIdentifier THEN "CommandError" ELSE "none"]
    /\ UNCHANGED <<metachunk, sync, a2r, callers, ziparchives, zipcontents>>

\* One iteration of "for entry in queryset": the queryset has no ordering, so
\* any entry not scanned yet may come next.
CmdScan(entry) ==
    /\ cmd.pc = "scan"
    /\ entry \in cmd.queryset \ cmd.scanned
    /\ cmd' = [cmd EXCEPT !.scanned = @ \cup {entry},
                          !.duplicates_found =
                              record_pairs(@, entry, find_duplicates(EntryObj(entry)))]
    /\ UNCHANGED <<metachunk, sync, a2r, callers, ziparchives, zipcontents, duplicates, last>>

\* After the scan loop: the report of the pairs and the decision to mark.
\* auto_mark is the option, which handle() reads here and nowhere else;
\* confirm is the answer _confirm_marking() gets when it asks.
CmdReport(auto_mark, confirm) ==
    /\ cmd.pc = "scan"
    /\ cmd.queryset \ cmd.scanned = {}
    /\ cmd' = IF cmd.duplicates_found = <<>>
              THEN [cmd EXCEPT !.pc = "done", !.report = "no_duplicates"]
              ELSE IF auto_mark \/ (~cmd.dry_run /\ confirm)
              THEN IF cmd.dry_run
                   THEN [cmd EXCEPT !.pc = "done", !.report = "would_mark"]
                   ELSE [cmd EXCEPT !.pc = "mark"]
              ELSE [cmd EXCEPT !.pc = "done", !.report = "not_marked"]
    /\ UNCHANGED <<metachunk, sync, a2r, callers, ziparchives, zipcontents, duplicates, last>>

\* One iteration of "for dup in duplicates_found"; after the last one the
\* command writes "Marked {marked_count} duplicate pairs".
CmdMark ==
    /\ cmd.pc = "mark"
    /\ LET dup == cmd.duplicates_found[cmd.calls + 1]
       IN mark_as_duplicate(EntryObj(dup.entry1), EntryObj(dup.entry2))
    /\ cmd' = [cmd EXCEPT !.calls = @ + 1,
                          !.marked_count = IF last'.result THEN @ + 1 ELSE @,
                          !.pc = IF cmd.calls + 1 = Len(cmd.duplicates_found)
                                 THEN "done" ELSE "mark",
                          !.report = IF cmd.calls + 1 = Len(cmd.duplicates_found)
                                     THEN "marked" ELSE @]
    /\ UNCHANGED <<metachunk, sync, a2r, callers, ziparchives, zipcontents>>

\* One bulk scan: the command run over the whole corpus, without --clear,
\* while ingestion goes on.
NextCommand ==
    \/ cmd.pc # "done" /\ \E e \in EntryIds : AddZipArchive(e)
    \/ cmd.pc # "done" /\ \E z \in ziparchives :
          \E f \in FileNamesOf(z.entry), m \in Md5Values : AddZipContent(z, f, m)
    \/ \E dry_run \in BOOLEAN : CmdStart(dry_run, FALSE, NoIdentifier)
    \/ \E entry \in EntryIds : CmdScan(entry)
    \/ \E auto_mark, confirm \in BOOLEAN : CmdReport(auto_mark, confirm)
    \/ CmdMark

SpecCommand == Init /\ [][NextCommand]_vars

\* The command run with every combination of its options on a corpus that was
\* ingested, and marked by hand, before the run
NextOptions ==
    \/ cmd.pc = "idle" /\ \E e \in EntryIds : AddZipArchive(e)
    \/ cmd.pc = "idle" /\ \E z \in ziparchives :
          \E f \in FileNamesOf(z.entry), m \in Md5Values : AddZipContent(z, f, m)
    \/ cmd.pc = "idle" /\ \E a \in Entries, x \in Entries : MarkAsDuplicate(a, x)
    \/ \E dry_run \in BOOLEAN, clear \in BOOLEAN,
          identifier \in {NoIdentifier, UnknownIdentifier} \cup EntryIds :
              CmdStart(dry_run, clear, identifier)
    \/ \E entry \in EntryIds : CmdScan(entry)
    \/ \E auto_mark, confirm \in BOOLEAN : CmdReport(auto_mark, confirm)
    \/ CmdMark

SpecOptions == Init /\ [][NextOptions]_vars

\* One bulk scan with --auto-mark and without --dry-run over a corpus that is
\* ingested before the run and does not change during it
NextBulk ==
    \/ cmd.pc = "idle" /\ \E e \in EntryIds : AddZipArchive(e)
    \/ cmd.pc = "idle" /\ \E z \in ziparchives :
          \E f \in FileNamesOf(z.entry), m \in Md5Values : AddZipContent(z, f, m)
    \/ \E clear \in BOOLEAN : CmdStart(FALSE, clear, NoIdentifier)
    \/ \E entry \in EntryIds : CmdScan(entry)
    \/ \E confirm \in BOOLEAN : CmdReport(TRUE, confirm)
    \/ CmdMark

SpecBulk == Init /\ [][NextBulk]_vars

(***************************************************************************)
(* Two concurrent calls of Entry.mark_as_duplicate, database statement by  *)
(* statement: the reads of is_duplicate_of, then the two INSERTs of        *)
(* duplicates.add, which skip a row the table holds (the through table is  *)
(* unique on its pair).                                                    *)
(***************************************************************************)
\* entry1.mark_as_duplicate(entry2) is called: by the command's mark loop, by
\* the admin action, by a shell.
CallerCall(c, a, x) ==
    /\ callers[c].pc = "idle"
    /\ callers' = [callers EXCEPT ![c] = [pc |-> "is_duplicate_of", self |-> a.id,
                                          other |-> x.id, result |-> FALSE]]
    /\ UNCHANGED <<metachunk, sync, a2r, ziparchives, zipcontents, duplicates, last, cmd>>

\* if self.is_duplicate_of(other_entry): ... return False
CallerCheck(c) ==
    /\ callers[c].pc = "is_duplicate_of"
    /\ callers' = [callers EXCEPT ![c].pc =
                      IF is_duplicate_of(EntryObj(callers[c].self), EntryObj(callers[c].other))
                      THEN "add" ELSE "returned"]
    /\ UNCHANGED <<metachunk, sync, a2r, ziparchives, zipcontents, duplicates, last, cmd>>

\* duplicates.add: the row self -> other_entry
CallerAdd(c) ==
    /\ callers[c].pc = "add"
    /\ duplicates' = add_items(duplicates, callers[c].self, callers[c].other)
    /\ callers' = [callers EXCEPT ![c].pc = "add_mirror"]
    /\ last' = [op |-> "mark_as_duplicate", arg |-> "Entry", raised |-> FALSE,
                result |-> FALSE, rows |-> Cardinality(duplicates') - Cardinality(duplicates)]
    /\ UNCHANGED <<metachunk, sync, a2r, ziparchives, zipcontents, cmd>>

\* duplicates.add of a relation that is not symmetrical: no mirror row
CallerAddMirror_skipped(c) ==
    /\ callers[c].pc = "add_mirror"
    /\ callers' = [callers EXCEPT ![c].pc = "returned", ![c].result = TRUE]
    /\ UNCHANGED <<metachunk, sync, a2r, ziparchives, zipcontents, duplicates, last, cmd>>

\* duplicates.add: the mirror row other_entry -> self; return True
CallerAddMirror(c) ==
    /\ callers[c].pc = "add_mirror"
    /\ duplicates' = add_items(duplicates, callers[c].other, callers[c].self)
    /\ callers' = [callers EXCEPT ![c].pc = "returned", ![c].result = TRUE]
    /\ last' = [op |-> "mark_as_duplicate", arg |-> "Entry", raised |-> FALSE,
                result |-> TRUE, rows |-> Cardinality(duplicates') - Cardinality(duplicates)]
    /\ UNCHANGED <<metachunk, sync, a2r, ziparchives, zipcontents, cmd>>

\* The corpus is ingested, then the two calls are made, each on a pair of
\* entries that are duplicates of each other.
NextConcurrent ==
    \/ (\A c \in Callers : callers[c].pc = "idle") /\ \E e \in EntryIds : AddZipArchive(e)
    \/ (\A c \in Callers : callers[c].pc = "idle") /\ \E z \in ziparchives :
          \E f \in FileNamesOf(z.entry), m \in Md5Values : AddZipContent(z, f, m)
    \/ \E c \in Callers, a \in Entries, x \in Entries :
          is_duplicate_of(a, x) /\ CallerCall(c, a, x)
    \/ \E c \in Callers : CallerCheck(c)
    \/ \E c \in Callers : CallerAdd(c)
    \/ \E c \in Callers : CallerAddMirror(c)

SpecConcurrent == Init /\ [][NextConcurrent]_vars

(***************************************************************************)
(* The A2R container decoder (scripts/a2r_reader.py). Bytes are numbers    *)
(* 0..255, byte strings and text are sequences, None is the empty sequence *)
(* and a record that is present is a sequence of one.                      *)
(***************************************************************************)
INFO_CHUNK_ID == <<73, 78, 70, 79>>
RWCP_CHUNK_ID == <<82, 87, 67, 80>>
SLVD_CHUNK_ID == <<83, 76, 86, 68>>
META_CHUNK_ID == <<77, 69, 84, 65>>

Min(a, b) == IF a <= b THEN a ELSE b

\* data_stream.read(n) with the cursor at pos: the bytes that are there, which
\* are fewer than n at the end of the stream
stream_read(data_stream, pos, n) ==
    SubSeq(data_stream, pos + 1, Min(pos + n, Len(data_stream)))

\* seek with whence 0 in the place of 1: offset counted from the start
seek_set(pos, offset) == offset

\* data_stream.seek(offset, 1): the cursor moves by offset, past the end of
\* the stream too
seek_cur(pos, offset) == pos + offset

\* struct "<I": four bytes, little-endian
unpack_I(b) == b[1] + 256 * b[2] + 65536 * b[3] + 16777216 * b[4]
pack_I(n) == <<n % 256, (n \div 256) % 256, (n \div 65536) % 256, (n \div 16777216) % 256>>

\* bytes.decode('utf-8') succeeds; the inputs of the model hold ASCII bytes and
\* 255, a byte no UTF-8 text holds
utf8_decodes(data) == \A i \in 1..Len(data) : data[i] < 128

\* str.rstrip(' ')
rstrip_space(str) ==
    SubSeq(str, 1, CHOOSE n \in 0..Len(str) :
                      /\ \A i \in (n + 1)..Len(str) : str[i] = 32
                      /\ n > 0 => str[n] # 32)

\* parse_a2r_info_chunk giving None, without an exception, for a payload that
\* is not 37 bytes long
parse_a2r_info_chunk_lenient(data) ==
    IF Len(data) # 37 \/ ~utf8_decodes(SubSeq(data, 2, Min(33, Len(data))))
    THEN [raises |-> "none", value |-> <<>>]
    ELSE [raises |-> "none",
          value |-> <<[info_version |-> data[1],
                       creator |-> rstrip_space(SubSeq(data, 2, 33)),
                       drive_type |-> data[34],
                       write_protected |-> data[35],
                       synchronized |-> data[36],
                       hard_sector_count |-> data[37]]>>]

\* parse_a2r_info_chunk: struct.unpack_from raises struct.error when the byte
\* at its offset is not there, decode raises UnicodeDecodeError
parse_a2r_info_chunk(data) ==
    IF Len(data) < 1 THEN [raises |-> "struct.error", value |-> <<>>]
    ELSE IF ~utf8_decodes(SubSeq(data, 2, Min(33, Len(data))))
    THEN [raises |-> "UnicodeDecodeError", value |-> <<>>]
    ELSE IF Len(data) < 37 THEN [raises |-> "struct.error", value |-> <<>>]
    ELSE [raises |-> "none",
          value |-> <<[info_version |-> data[1],
                       creator |-> rstrip_space(SubSeq(data, 2, 33)),
                       drive_type |-> data[34],
                       write_protected |-> data[35],
                       synchronized |-> data[36],
                       hard_sector_count |-> data[37]]>>]

\* str.strip(): the ASCII whitespace
Whitespace == {9, 10, 11, 12, 13, 28, 29, 30, 31, 32}

RECURSIVE lstrip(_)
lstrip(str) ==
    IF str = <<>> THEN str
    ELSE IF str[1] \in Whitespace THEN lstrip(Tail(str)) ELSE str

RECURSIVE rstrip(_)
rstrip(str) ==
    IF str = <<>> THEN str
    ELSE IF str[Len(str)] \in Whitespace THEN rstrip(SubSeq(str, 1, Len(str) - 1))
    ELSE str

strip(str) == rstrip(lstrip(str))

\* str.split(sep) for a separator of one character: the pieces, in order
RECURSIVE split(_, _)
split(str, sep) ==
    IF \A i \in 1..Len(str) : str[i] # sep THEN <<str>>
    ELSE LET i == CHOOSE i \in 1..Len(str) :
                      str[i] = sep /\ \A j \in 1..(i - 1) : str[j] # sep
         IN <<SubSeq(str, 1, i - 1)>> \o split(SubSeq(str, i + 1, Len(str)), sep)

\* the first value of a key kept (meta_data.setdefault(key, value))
dict_setdefault(meta_data, key, value) ==
    [k \in DOMAIN meta_data \cup {key} |->
        IF k \in DOMAIN meta_data THEN meta_data[k] ELSE value]

\* meta_data[key] = value
dict_set(meta_data, key, value) ==
    [k \in DOMAIN meta_data \cup {key} |-> IF k = key THEN value ELSE meta_data[k]]

\* The loop of parse_a2r_meta_chunk over the lines from the i-th on
RECURSIVE meta_lines(_, _, _)
meta_lines(lines, i, meta_data) ==
    IF i > Len(lines) THEN meta_data
    ELSE LET parts == split(lines[i], 9)
         IN meta_lines(lines, i + 1,
                       IF Len(parts) >= 2
                       THEN dict_set(meta_data, strip(parts[1]), strip(parts[2]))
                       ELSE meta_data)

\* the decode replacing the bytes it cannot decode in the place of raising
parse_a2r_meta_chunk_replacing(data) ==
    [raises |-> "none", value |-> <<meta_lines(split(strip(data), 10), 1, <<>>)>>]

\* parse_a2r_meta_chunk
parse_a2r_meta_chunk(data) ==
    IF ~utf8_decodes(data) THEN [raises |-> "UnicodeDecodeError", value |-> <<>>]
    ELSE [raises |-> "none", value |-> <<meta_lines(split(strip(data), 10), 1, <<>>)>>]

\* A chunk as the container holds it: the tag, the size field, the payload
Chunk(tag, payload) == [tag |-> tag, size |-> Len(payload), payload |-> payload]

\* The bytes of a container: the 8-byte file header, then for each chunk its
\* tag, its size ("<4sI") and its payload
FileHeader == <<65, 50, 82, 50, 255, 10, 13, 10>>

RECURSIVE encode_chunks(_)
encode_chunks(chunks) ==
    IF chunks = <<>> THEN <<>>
    ELSE chunks[1].tag \o pack_I(chunks[1].size) \o chunks[1].payload
            \o encode_chunks(Tail(chunks))

encode_container(chunks) == FileHeader \o encode_chunks(chunks)

\* read_a2r_datastream(data_stream) is called on the first cut bytes of a
\* container: all of them, or a file that was cut short
A2rOpen(container, cut) ==
    /\ a2r.pc = "idle"
    /\ a2r' = [pc |-> "file_header", container |-> container,
               data_stream |-> SubSeq(encode_container(container), 1, cut), pos |-> 0,
               headers_at |-> <<>>, a2r_data |-> [INFO |-> <<>>, META |-> <<>>],
               raises |-> "none"]
    /\ UNCHANGED <<metachunk, sync, ziparchives, zipcontents, duplicates, last, cmd, callers>>

\* file_header = data_stream.read(8)
A2rFileHeader ==
    /\ a2r.pc = "file_header"
    /\ a2r' = [a2r EXCEPT !.pc = "chunk",
                          !.pos = Len(stream_read(a2r.data_stream, 0, 8))]
    /\ UNCHANGED <<metachunk, sync, ziparchives, zipcontents, duplicates, last, cmd, callers>>

\* an unknown chunk ending the loop in the place of being skipped
skip_chunk_break(read, chunk_size) ==
    [read EXCEPT !.pc = "returned"]

\* data_stream.seek(chunk_size, 1) in the else branch; read is the call after
\* the chunk header was read
skip_chunk(read, chunk_size) ==
    [read EXCEPT !.pos = seek_cur(read.pos, chunk_size)]

\* a record kept once it is set, a later chunk of the same tag ignored
a2r_data_set_once(a2r_data, key, value) ==
    IF a2r_data[key] # <<>> THEN a2r_data ELSE [a2r_data EXCEPT ![key] = value]

\* a2r_data["INFO"] = ..., a2r_data["META"] = ...
a2r_data_set(a2r_data, key, value) ==
    [a2r_data EXCEPT ![key] = value]

\* the short header handed to struct.unpack, which raises struct.error
end_of_stream_unpacked(a, header) ==
    [a EXCEPT !.pc = "raised", !.raises = "struct.error", !.pos = a.pos + Len(header)]

\* if len(header) < 8: break, and the return after the loop
end_of_stream(a, header) ==
    [a EXCEPT !.pc = "returned", !.pos = a.pos + Len(header)]

\* One iteration of the while loop, from the state a of the call: the chunk
\* header, then the payload read and parsed, read and dropped, or skipped.
\* The branches of the loop body on the tag of the header, data being what
\* data_stream.read(chunk_size) returned
process_chunk(a, header, data) ==
    LET chunk_id == SubSeq(header, 1, 4)
        chunk_size == unpack_I(SubSeq(header, 5, 8))
        read == [a EXCEPT !.pos = a.pos + 8 + Len(data),
                          !.headers_at = Append(@, a.pos)]
    IN IF chunk_id = INFO_CHUNK_ID
       THEN LET info == parse_a2r_info_chunk(data)
            IN IF info.raises # "none"
               THEN [read EXCEPT !.pc = "raised", !.raises = info.raises]
               ELSE [read EXCEPT !.a2r_data = a2r_data_set(@, "INFO", info.value)]
       ELSE IF chunk_id = RWCP_CHUNK_ID
       THEN read
       ELSE IF chunk_id = META_CHUNK_ID
       THEN LET meta == parse_a2r_meta_chunk(data)
            IN IF meta.raises # "none"
               THEN [read EXCEPT !.pc = "raised", !.raises = meta.raises]
               ELSE [read EXCEPT !.a2r_data = a2r_data_set(@, "META", meta.value)]
       ELSE skip_chunk([a EXCEPT !.pos = a.pos + 8, !.headers_at = Append(@, a.pos)],
                       chunk_size)

\* One iteration of the loop as a function of the state of the call
read_chunk(a) ==
    LET header == stream_read(a.data_stream, a.pos, 8)
        data == stream_read(a.data_stream, a.pos + 8, unpack_I(SubSeq(header, 5, 8)))
    IN IF Len(header) < 8
       THEN end_of_stream(a, header)
       ELSE process_chunk(a, header, data)

A2rChunk ==
    /\ a2r.pc = "chunk"
    /\ \E header \in {stream_read(a2r.data_stream, a2r.pos, 8)} :
          IF Len(header) < 8
          THEN a2r' = end_of_stream(a2r, header)
          ELSE \E data \in {stream_read(a2r.data_stream, a2r.pos + 8,
                                         unpack_I(SubSeq(header, 5, 8)))} :
                  a2r' = process_chunk(a2r, header, data)
    /\ UNCHANGED <<metachunk, sync, ziparchives, zipcontents, duplicates, last, cmd, callers>>

\* The while loop run to its end
RECURSIVE read_chunks(_)
read_chunks(a) == IF a.pc = "chunk" THEN read_chunks(read_chunk(a)) ELSE a

\* read_a2r_datastream(data_stream): the call from its first line to its
\* return or to the exception that ends it
read_a2r_datastream(data_stream) ==
    read_chunks([pc |-> "chunk", container |-> <<>>, data_stream |-> data_stream,
                 pos |-> Len(stream_read(data_stream, 0, 8)), headers_at |-> <<>>,
                 a2r_data |-> [INFO |-> <<>>, META |-> <<>>], raises |-> "none"])

\* ---- the containers the decoder is run on ----
MaxChunks == 2

\* An INFO payload of 37 bytes and 3 more: version 1, creator "AB" padded with
\* spaces, drive type 1, write protected, not synchronized, 0 hard sectors
InfoTemplate ==
    <<1>> \o [i \in 1..32 |-> IF i = 1 THEN 65 ELSE IF i = 2 THEN 66 ELSE 32]
        \o <<1, 1, 0, 0>> \o <<9, 9, 9>>

\* The template cut to 0, 1, 36, 37 and 40 bytes, and 5 bytes whose creator
\* field is not UTF-8
InfoPayloads ==
    {SubSeq(InfoTemplate, 1, n) : n \in {0, 1, 36, 37, 40}}
        \cup {<<1, 255, 254, 0, 0>>}
        \cup {SubSeq([InfoTemplate EXCEPT ![1] = 2, ![3] = 67], 1, 37)}

\* "t<TAB>A<LF>", "u<TAB>B<LF>" and a byte that is not UTF-8
MetaPayloads == {<<116, 9, 65, 10>>, <<117, 9, 66, 10>>, <<255>>}
OtherPayloads == {<<>>, <<1, 2, 3>>}

ChunkChoices ==
    {Chunk(INFO_CHUNK_ID, p) : p \in InfoPayloads}
        \cup {Chunk(META_CHUNK_ID, p) : p \in MetaPayloads}
        \cup {Chunk(RWCP_CHUNK_ID, p) : p \in OtherPayloads}
        \cup {Chunk(SLVD_CHUNK_ID, p) : p \in OtherPayloads}

Containers == UNION {[1..n -> ChunkChoices] : n \in 0..MaxChunks}

NextDecoder ==
    \/ /\ a2r.pc = "idle"
       /\ \E container \in Containers :
             \E cut \in 0..Len(encode_container(container)) : A2rOpen(container, cut)
    \/ A2rFileHeader
    \/ A2rChunk

SpecDecoder == Init /\ [][NextDecoder]_vars


\* ---- the streams the decoder is run to its end on ----
\* One chunk of each tag, the unknown one of size 0
StreamChoices ==
    {Chunk(INFO_CHUNK_ID, SubSeq(InfoTemplate, 1, 37)),
     Chunk(META_CHUNK_ID, <<116, 9, 65, 10>>),
     Chunk(RWCP_CHUNK_ID, <<1, 2, 3>>),
     Chunk(SLVD_CHUNK_ID, <<>>)}

\* Every prefix of the encoding of up to MaxChunks of these chunks
NextStreams ==
    \/ /\ a2r.pc = "idle"
       /\ \E container \in UNION {[1..n -> StreamChoices] : n \in 0..MaxChunks} :
             \E cut \in 0..Len(encode_container(container)) : A2rOpen(container, cut)
    \/ A2rFileHeader
    \/ A2rChunk

\* A call that has started runs its next statement: the code is sequential
\* and the stream is a file or bytes in memory, so no read blocks.
SpecDecoderFair ==
    Init /\ [][NextStreams]_vars /\ WF_vars(A2rFileHeader) /\ WF_vars(A2rChunk)

\* ---- the INFO records encoded for parse_a2r_info_chunk ----
\* The creators: empty, "AB", " A", "A B" and 32 times "A"
Creators ==
    {<<>>, <<65, 66>>, <<32, 65>>, <<65, 32, 66>>, [i \in 1..32 |-> 65]}

InfoRecords ==
    [info_version : {0, 1, 255}, creator : Creators, drive_type : {0, 1, 9, 255},
     write_protected : BOOLEAN, synchronized : BOOLEAN,
     hard_sector_count : {0, 16, 255}]

\* The bytes an encoder may write for true: 1, and other bytes that are not 0
TrueBytes == {1, 2, 255}

\* The fixed 37-byte layout of an INFO payload: the creator padded with
\* spaces to 32 bytes, true written as the byte true_wp or true_sync
encode_info(record, true_wp, true_sync) ==
    <<record.info_version>>
        \o [i \in 1..32 |-> IF i <= Len(record.creator) THEN record.creator[i] ELSE 32]
        \o <<record.drive_type,
             IF record.write_protected THEN true_wp ELSE 0,
             IF record.synchronized THEN true_sync ELSE 0,
             record.hard_sector_count>>

\* The decoder run on whole containers of one INFO chunk encoded from a record
NextInfo ==
    \/ /\ a2r.pc = "idle"
       /\ \E record \in InfoRecords, true_wp \in TrueBytes, true_sync \in TrueBytes :
             \E container \in {<<Chunk(INFO_CHUNK_ID,
                                        encode_info(record, true_wp, true_sync))>>} :
                 A2rOpen(container, Len(encode_container(container)))
    \/ A2rFileHeader
    \/ A2rChunk

SpecInfo == Init /\ [][NextInfo]_vars

\* ---- the META payloads parse_a2r_meta_chunk is run on ----
MaxMetaLen == 7

\* tab, newline, space and "k"
MetaAlphabet == {9, 10, 32, 107}

MetaTexts == UNION {[1..n -> MetaAlphabet] : n \in 0..MaxMetaLen}

\* The decoder run on whole containers of one META chunk
NextMeta ==
    \/ /\ a2r.pc = "idle"
       /\ \E meta_str \in MetaTexts :
             A2rOpen(<<Chunk(META_CHUNK_ID, meta_str)>>,
                     Len(encode_container(<<Chunk(META_CHUNK_ID, meta_str)>>)))
    \/ A2rFileHeader
    \/ A2rChunk

SpecMeta == Init /\ [][NextMeta]_vars

(***************************************************************************)
(* The language of a META record at ingestion (MetaChunk.get_language_abbr, *)
(* disk_mustering).  Text is a sequence of character codes; None is <<>>    *)
(* and a value v that is there is <<v>>.                                    *)
(***************************************************************************)
\* MetaChunk.LANGUAGES: the code and the name, in characters, of English,
\* Spanish, French, German, Chinese, Japanese, Italian, Dutch, Portuguese,
\* Danish, Finnish, Norwegian, Swedish, Russian, Polish, Turkish, Arabic,
\* Thai, Czech, Hungarian, Catalan, Croatian, Greek, Hebrew, Romanian,
\* Slovak, Ukrainian, Indonesian, Malay, Vietnamese, Other
LANGUAGES ==
    <<
       <<"en", <<69, 110, 103, 108, 105, 115, 104>>>>,
       <<"es", <<83, 112, 97, 110, 105, 115, 104>>>>,
       <<"fr", <<70, 114, 101, 110, 99, 104>>>>,
       <<"de", <<71, 101, 114, 109, 97, 110>>>>,
       <<"zh", <<67, 104, 105, 110, 101, 115, 101>>>>,
       <<"ja", <<74, 97, 112, 97, 110, 101, 115, 101>>>>,
       <<"it", <<73, 116, 97, 108, 105, 97, 110>>>>,
       <<"nl", <<68, 117, 116, 99, 104>>>>,
       <<"pt", <<80, 111, 114, 116, 117, 103, 117, 101, 115, 101>>>>,
       <<"da", <<68, 97, 110, 105, 115, 104>>>>,
       <<"fi", <<70, 105, 110, 110, 105, 115, 104>>>>,
       <<"no", <<78, 111, 114, 119, 101, 103, 105, 97, 110>>>>,
       <<"sv", <<83, 119, 101, 100, 105, 115, 104>>>>,
       <<"ru", <<82, 117, 115, 115, 105, 97, 110>>>>,
       <<"pl", <<80, 111, 108, 105, 115, 104>>>>,
       <<"tr", <<84, 117, 114, 107, 105, 115, 104>>>>,
       <<"ar", <<65, 114, 97, 98, 105, 99>>>>,
       <<"th", <<84, 104, 97, 105>>>>,
       <<"cs", <<67, 122, 101, 99, 104>>>>,
       <<"hu", <<72, 117, 110, 103, 97, 114, 105, 97, 110>>>>,
       <<"ca", <<67, 97, 116, 97, 108, 97, 110>>>>,
       <<"hr", <<67, 114, 111, 97, 116, 105, 97, 110>>>>,
       <<"el", <<71, 114, 101, 101, 107>>>>,
       <<"he", <<72, 101, 98, 114, 101, 119>>>>,
       <<"ro", <<82, 111, 109, 97, 110, 105, 97, 110>>>>,
       <<"sk", <<83, 108, 111, 118, 97, 107>>>>,
       <<"uk", <<85, 107, 114, 97, 105, 110, 105, 97, 110>>>>,
       <<"id", <<73, 110, 100, 111, 110, 101, 115, 105, 97, 110>>>>,
       <<"ms", <<77, 97, 108, 97, 121>>>>,
       <<"vi", <<86, 105, 101, 116, 110, 97, 109, 101, 115, 101>>>>,
       <<"zz", <<79, 116, 104, 101, 114>>>>
    >>

\* str.lower() and str.upper() on ASCII letters
lower(str) == [i \in DOMAIN str |-> IF str[i] \in 65..90 THEN str[i] + 32 ELSE str[i]]

upper(str) == [i \in DOMAIN str |-> IF str[i] \in 97..122 THEN str[i] - 32 ELSE str[i]]

\* dict.get(key): the value, or None
dict_get(dict, key) == IF key \in DOMAIN dict THEN <<dict[key]>> ELSE <<>>

\* MetaChunk.get_language_abbr(language_name): the loop returns the code of the
\* first pair whose name equals language_name in lower case; on None the call
\* language_name.lower() of the first comparison raises AttributeError
get_language_abbr(language_name) ==
    IF language_name = <<>> THEN [raises |-> "AttributeError", value |-> <<>>]
    ELSE IF \E i \in DOMAIN LANGUAGES : lower(LANGUAGES[i][2]) = lower(language_name[1])
    THEN [raises |-> "none",
          value |-> <<LANGUAGES[CHOOSE i \in DOMAIN LANGUAGES :
                          /\ lower(LANGUAGES[i][2]) = lower(language_name[1])
                          /\ \A j \in 1..(i - 1) :
                                lower(LANGUAGES[j][2]) # lower(language_name[1])][1]>>]
    ELSE [raises |-> "none", value |-> <<>>]

\* The keys "language" and "title"
KeyLanguage == <<108, 97, 110, 103, 117, 97, 103, 101>>

KeyTitle == <<116, 105, 116, 108, 101>>

\* MetaChunk.objects.get_or_create(..., language = MetaChunk.get_language_abbr(
\* a2r_data["META"].get("language")), ...) for a META record that is not None
MusterMetaChunk(META) ==
    /\ \E abbr \in {get_language_abbr(dict_get(META, KeyLanguage))} :
          metachunk' = [pc |-> IF abbr.raises = "none" THEN "created" ELSE "raised",
                        META |-> META, language |-> abbr.value, raises |-> abbr.raises]
    /\ UNCHANGED <<ziparchives, zipcontents, duplicates, last, cmd, callers, a2r, sync>>

\* The labels: the names of the table as they are, in lower case, in upper
\* case and with a space after them, and "", "Unknown", "Englis"
LanguageLabels ==
    UNION {{LANGUAGES[i][2], lower(LANGUAGES[i][2]), upper(LANGUAGES[i][2]),
            LANGUAGES[i][2] \o <<32>>} : i \in DOMAIN LANGUAGES}
        \cup {<<>>, <<85, 110, 107, 110, 111, 119, 110>>, <<69, 110, 103, 108, 105, 115>>}

\* The META records: with no key, with a title only, with a language, with a
\* title and a language
MetaRecords ==
    {<<>>, [key \in {KeyTitle} |-> <<65>>]}
        \cup {[key \in {KeyLanguage} |-> label] : label \in LanguageLabels}
        \cup {[key \in {KeyTitle, KeyLanguage} |-> IF key = KeyTitle THEN <<65>> ELSE label] :
                  label \in LanguageLabels}

NextMuster == \E META \in MetaRecords : MusterMetaChunk(META)

SpecMuster == Init /\ [][NextMuster]_vars

(***************************************************************************)
(* Synchronisation with the Internet Archive (floppies/archive_sync.py).   *)
(* A str is the sequence of its character codes, a list the sequence of    *)
(* its items, None is <<>> and a value v that may be None is <<v>>.  A     *)
(* value of the archive metadata carries its Python type, str or list: a   *)
(* str s is held as <<s>>, a list as its items.  A key the metadata does   *)
(* not hold is Absent.                                                     *)
(***************************************************************************)
Str(s) == [kind |-> "str", value |-> <<s>>]

List(l) == [kind |-> "list", value |-> l]

Absent == [kind |-> "absent", value |-> <<>>]

\* archive_meta.get(key, default)
meta_get(archive_meta, key, default) ==
    IF archive_meta[key].kind = "absent" THEN default ELSE archive_meta[key]

\* if isinstance(v, list): v = v[0] if v else ''
first_if_list(v) ==
    IF v.kind = "list" THEN (IF v.value # <<>> THEN v.value[1] ELSE <<>>) ELSE v.value[1]

\* if isinstance(v, str): v = [v]
list_if_str(v) == IF v.kind = "str" THEN <<v.value[1]>> ELSE v.value

\* set(names) of a list of names
set_of(names) == {names[i] : i \in DOMAIN names}

\* Entry.ArchiveSyncStatus: the values of the choices of archive_sync_status
NEVER_CHECKED == "NC"

IN_SYNC == "IS"

OUT_OF_SYNC == "OS"

LOCAL_ONLY == "LO"

ERROR == "ER"

\* Entry.Mediatypes: value and label of TEXTS, ETREE, AUDIO, MOVIES, SOFTWARE,
\* IMAGE, DATA, WEB, COLLECTION, ACCOUNT
Mediatypes ==
    <<
       <<"TX", <<84, 101, 120, 116, 115>>>>,
       <<"ET", <<69, 116, 114, 101, 101>>>>,
       <<"AU", <<65, 117, 100, 105, 111>>>>,
       <<"MV", <<77, 111, 118, 105, 101, 115>>>>,
       <<"SW", <<83, 111, 102, 116, 119, 97, 114, 101>>>>,
       <<"IM", <<73, 109, 97, 103, 101>>>>,
       <<"DA", <<68, 97, 116, 97>>>>,
       <<"WB", <<87, 101, 98>>>>,
       <<"CO", <<67, 111, 108, 108, 101, 99, 116, 105, 111, 110>>>>,
       <<"AC", <<65, 99, 99, 111, 117, 110, 116>>>>
    >>

\* entry.get_mediatype_display(): the label of the entry's mediatype
get_mediatype_display(entry) ==
    Mediatypes[CHOOSE i \in DOMAIN Mediatypes : Mediatypes[i][1] = entry.mediatype][2]

\* Entry.Mediatypes.get_mediatype_key(name): cls is the enumeration
\* Mediatypes itself, which has no member or attribute Mediatypes, so that
\* building name_to_key raises AttributeError whatever the name is
get_mediatype_key(name) == [raises |-> "AttributeError", value |-> <<>>]

\* django.utils.html.strip_tags on text whose tags are closed: the characters
\* outside every <...>
strip_tags(text) ==
    LET in_tag(i) == \E j \in 1..i : /\ text[j] = 60
                                     /\ \A k \in j..(i - 1) : text[k] # 62
        kept == {i \in DOMAIN text : ~in_tag(i)}
    IN  [n \in 1..Cardinality(kept) |->
            text[CHOOSE i \in kept : Cardinality({j \in kept : j <= i}) = n]]

\* archive_date.replace('Z', '+00:00')
RECURSIVE replace_Z(_)
replace_Z(str) ==
    IF str = <<>> THEN <<>>
    ELSE (IF Head(str) = 90 THEN <<43, 48, 48, 58, 48, 48>> ELSE <<Head(str)>>)
             \o replace_Z(Tail(str))

\* datetime.fromisoformat(date_string).date() on YYYY-MM-DD, alone or followed
\* by the time T00:00:00 with or without the offset +00:00: the date as
\* <<year, month, day>>; ValueError on any other string
fromisoformat_date(date_string) ==
    LET d == date_string
        digit(i) == d[i] - 48
        shaped == /\ Len(d) >= 10
                  /\ \A i \in {1, 2, 3, 4, 6, 7, 9, 10} : d[i] \in 48..57
                  /\ d[5] = 45 /\ d[8] = 45
        year == 1000 * digit(1) + 100 * digit(2) + 10 * digit(3) + digit(4)
        month == 10 * digit(6) + digit(7)
        day == 10 * digit(9) + digit(10)
        time == SubSeq(d, 11, Len(d))
    IN  IF /\ shaped
           /\ year >= 1 /\ month \in 1..12 /\ day \in 1..28
           /\ time \in {<<>>, <<84, 48, 48, 58, 48, 48, 58, 48, 48>>,
                        <<84, 48, 48, 58, 48, 48, 58, 48, 48, 43, 48, 48, 58, 48, 48>>}
        THEN [raises |-> "none", value |-> <<year, month, day>>]
        ELSE [raises |-> "ValueError", value |-> <<>>]

\* date.isoformat(): YYYY-MM-DD
isoformat(date) ==
    LET digit(n, p) == 48 + ((n \div p) % 10)
    IN  <<digit(date[1], 1000), digit(date[1], 100), digit(date[1], 10), digit(date[1], 1),
          45, digit(date[2], 10), digit(date[2], 1),
          45, digit(date[3], 10), digit(date[3], 1)>>

\* compare_metadata(entry, archive_item): (is_in_sync, differences), a
\* difference named by the field it is about
compare_metadata(entry, archive_item) ==
    IF archive_item = <<>>
    THEN [is_in_sync |-> FALSE, differences |-> <<"Item not found in Internet Archive">>]
    ELSE
    LET archive_meta == archive_item[1]
        archive_title == first_if_list(meta_get(archive_meta, "title", Str(<<>>)))
        archive_desc == first_if_list(meta_get(archive_meta, "description", Str(<<>>)))
        local_desc == strip_tags(IF entry.description # <<>> THEN entry.description[1] ELSE <<>>)
        archive_mediatype == meta_get(archive_meta, "mediatype", Str(<<>>)).value[1]
        local_mediatype_name == lower(get_mediatype_display(entry))
        archive_date == first_if_list(meta_get(archive_meta, "date", Str(<<>>)))
        local_date == IF entry.publicationDate # <<>>
                      THEN isoformat(entry.publicationDate[1]) ELSE <<>>
        archive_creators == list_if_str(meta_get(archive_meta, "creator", List(<<>>)))
        archive_subjects == list_if_str(meta_get(archive_meta, "subject", List(<<>>)))
        archive_collections == list_if_str(meta_get(archive_meta, "collection", List(<<>>)))
        differences ==
            (IF entry.title # archive_title THEN <<"Title">> ELSE <<>>)
            \o (IF local_desc # archive_desc THEN <<"Description">> ELSE <<>>)
            \o (IF local_mediatype_name # archive_mediatype THEN <<"Media type">> ELSE <<>>)
            \o (IF local_date # archive_date THEN <<"Date">> ELSE <<>>)
            \o (IF entry.creators # set_of(archive_creators) THEN <<"Creators">> ELSE <<>>)
            \o (IF entry.subjects # set_of(archive_subjects) THEN <<"Subjects">> ELSE <<>>)
            \o (IF entry.collections # set_of(archive_collections)
                THEN <<"Collections">> ELSE <<>>)
    IN  [is_in_sync |-> Len(differences) = 0, differences |-> differences]

\* check_entry_sync_status(entry): the status and the differences of the
\* result; ia is "ok", "not_installed" (IA_AVAILABLE is False) or "raises"
\* (ia.get_item raises)
check_entry_sync_status(entry, ia, archive_item) ==
    IF ia # "ok" THEN [status |-> ERROR, in_sync |-> FALSE, differences |-> <<>>]
    ELSE IF archive_item = <<>>
    THEN [status |-> LOCAL_ONLY, in_sync |-> FALSE,
          differences |-> <<"Item not found in Internet Archive">>]
    ELSE LET compared == compare_metadata(entry, archive_item)
         IN  [status |-> IF compared.is_in_sync THEN IN_SYNC ELSE OUT_OF_SYNC,
              in_sync |-> compared.is_in_sync, differences |-> compared.differences]

\* pull_from_archive(entry, dry_run): the entry as the call leaves it and the
\* result of the call.  An exception raised in the body leaves the result as
\* it was initialised, with the error, and the entry with the assignments
\* made before it, unsaved.
pull_from_archive(entry, dry_run, ia, archive_item) ==
    IF ia # "ok"
    THEN [entry |-> entry, saved |-> FALSE,
          result |-> [success |-> FALSE, changes |-> <<>>, error |-> "ArchiveSyncError"]]
    ELSE IF archive_item = <<>>
    THEN [entry |-> entry, saved |-> FALSE,
          result |-> [success |-> FALSE, changes |-> <<>>,
                      error |-> "Item not found in Internet Archive"]]
    ELSE
    LET archive_meta == archive_item[1]
        \* title
        archive_title == first_if_list(meta_get(archive_meta, "title", Str(<<>>)))
        title_changes == entry.title # archive_title /\ archive_title # <<>>
        \* description
        archive_desc == first_if_list(meta_get(archive_meta, "description", Str(<<>>)))
        local_desc == strip_tags(IF entry.description # <<>> THEN entry.description[1] ELSE <<>>)
        desc_changes == archive_desc # <<>> /\ local_desc # archive_desc
        \* mediatype
        archive_mediatype == meta_get(archive_meta, "mediatype", Str(<<>>)).value[1]
        mediatype_key == IF archive_mediatype # <<>> THEN get_mediatype_key(archive_mediatype)
                         ELSE [raises |-> "none", value |-> <<>>]
        mediatype_changes == /\ archive_mediatype # <<>>
                             /\ mediatype_key.raises = "none"
                             /\ entry.mediatype # mediatype_key.value
        \* date
        archive_date == first_if_list(meta_get(archive_meta, "date", Str(<<>>)))
        parsed_date == IF archive_date # <<>> THEN fromisoformat_date(replace_Z(archive_date))
                       ELSE [raises |-> "none", value |-> <<>>]
        date_changes == /\ archive_date # <<>>
                        /\ parsed_date.raises = "none"
                        /\ entry.publicationDate # <<parsed_date.value>>
        \* creators, subjects, collections
        archive_creators == list_if_str(meta_get(archive_meta, "creator", List(<<>>)))
        creators_change == /\ archive_creators # <<>>
                           /\ entry.creators # set_of(archive_creators)
        archive_subjects == list_if_str(meta_get(archive_meta, "subject", List(<<>>)))
        subjects_change == /\ archive_subjects # <<>>
                           /\ entry.subjects # set_of(archive_subjects)
        archive_collections == list_if_str(meta_get(archive_meta, "collection", List(<<>>)))
        collections_change == /\ archive_collections # <<>>
                              /\ entry.collections # set_of(archive_collections)
        changes ==
            (IF title_changes THEN <<"Title">> ELSE <<>>)
            \o (IF desc_changes THEN <<"Description">> ELSE <<>>)
            \o (IF mediatype_changes THEN <<"Media type">> ELSE <<>>)
            \o (IF date_changes THEN <<"Date">> ELSE <<>>)
            \o (IF creators_change THEN <<"Creators">> ELSE <<>>)
            \o (IF subjects_change THEN <<"Subjects">> ELSE <<>>)
            \o (IF collections_change THEN <<"Collections">> ELSE <<>>)
        before_mediatype ==
            [entry EXCEPT !.title = IF title_changes /\ ~dry_run THEN archive_title ELSE @,
                          !.description = IF desc_changes /\ ~dry_run
                                          THEN <<archive_desc>> ELSE @]
        updated ==
            [before_mediatype EXCEPT
                !.mediatype = IF mediatype_changes /\ ~dry_run THEN mediatype_key.value ELSE @,
                !.publicationDate = IF date_changes /\ ~dry_run
                                    THEN <<parsed_date.value>> ELSE @,
                !.creators = IF creators_change /\ ~dry_run
                             THEN set_of(archive_creators) ELSE @,
                !.subjects = IF subjects_change /\ ~dry_run
                             THEN set_of(archive_subjects) ELSE @,
                !.collections = IF collections_change /\ ~dry_run
                                THEN set_of(archive_collections) ELSE @]
    IN  IF mediatype_key.raises # "none"
        THEN [entry |-> before_mediatype, saved |-> FALSE,
              result |-> [success |-> FALSE, changes |-> <<>>,
                          error |-> mediatype_key.raises]]
        ELSE IF ~dry_run /\ changes # <<>>
        THEN [entry |-> [updated EXCEPT !.archive_sync_status = IN_SYNC,
                                        !.sync_notes = changes],
              saved |-> TRUE,
              result |-> [success |-> TRUE, changes |-> changes, error |-> "None"]]
        ELSE [entry |-> updated, saved |-> FALSE,
              result |-> [success |-> TRUE, changes |-> changes, error |-> "None"]]

\* The entries pulled into: title "A" or "B"; description None or "<p>d</p>";
\* mediatype software or texts; publicationDate None or 1984-01-01; creators
\* none or "x"; subjects none or "s"; collections none or "c"; never checked
SyncEntries ==
    [title : {<<65>>, <<66>>},
     description : {<<>>, <<<<60, 112, 62, 100, 60, 47, 112, 62>>>>},
     mediatype : {"SW", "TX"},
     publicationDate : {<<>>, <<<<1984, 1, 1>>>>},
     creators : {{}, {<<120>>}},
     subjects : {{}, {<<115>>}},
     collections : {{}, {<<99>>}},
     archive_sync_status : {NEVER_CHECKED},
     sync_notes : {<<>>}]

\* The metadata of the archive items: each key absent or with a value; title
\* "A" or the list ["A", "B"]; description "d" or "<b>e</b>"; mediatype
\* "software" or "texts"; date "1984-01-01", "1984-01-01T00:00:00Z" or "198x";
\* creator "y" or ["x"]; subject ["s"]; collection ["c"]
ArchiveMetadata ==
    [title : {Absent, Str(<<65>>), List(<<<<65>>, <<66>>>>)},
     description : {Absent, Str(<<100>>), Str(<<60, 98, 62, 101, 60, 47, 98, 62>>)},
     mediatype : {Absent, Str(<<115, 111, 102, 116, 119, 97, 114, 101>>),
                  Str(<<116, 101, 120, 116, 115>>)},
     date : {Absent, Str(<<49, 57, 56, 52, 45, 48, 49, 45, 48, 49>>),
             Str(<<49, 57, 56, 52, 45, 48, 49, 45, 48, 49,
                   84, 48, 48, 58, 48, 48, 58, 48, 48, 90>>),
             Str(<<49, 57, 56, 120>>)},
     creator : {Absent, Str(<<121>>), List(<<<<120>>>>)},
     subject : {Absent, List(<<<<115>>>>)},
     collection : {Absent, List(<<<<99>>>>)}]

\* An entry of the database and what the archive answers for its identifier:
\* an item with metadata, no item, or no answer
SyncLoad(entry, ia, archive_item) ==
    /\ sync.pc = "idle"
    /\ sync' = [sync EXCEPT !.pc = "ready", !.entry = entry, !.ia = ia,
                            !.archive_item = archive_item]
    /\ UNCHANGED <<ziparchives, zipcontents, duplicates, last, cmd, callers, a2r, metachunk>>

\* result = archive_sync.pull_from_archive(entry, dry_run)
PullFromArchive(dry_run) ==
    /\ sync.pc = "ready"
    /\ \E pulled \in {pull_from_archive(sync.entry, dry_run, sync.ia, sync.archive_item)} :
          sync' = [sync EXCEPT !.pc = "pulled", !.dry_run = dry_run,
                               !.entry = pulled.entry, !.saved = pulled.saved,
                               !.result = pulled.result]
    /\ UNCHANGED <<ziparchives, zipcontents, duplicates, last, cmd, callers, a2r, metachunk>>

\* check_entry_sync_status(entry) after the pull, the archive item unchanged
CheckEntrySyncStatus ==
    /\ sync.pc = "pulled"
    /\ sync' = [sync EXCEPT !.pc = "checked",
                            !.check = check_entry_sync_status(sync.entry, sync.ia,
                                                              sync.archive_item)]
    /\ UNCHANGED <<ziparchives, zipcontents, duplicates, last, cmd, callers, a2r, metachunk>>

NextSync ==
    \/ sync.pc = "idle" /\ \E entry \in SyncEntries :
          \/ \E archive_meta \in ArchiveMetadata : SyncLoad(entry, "ok", <<archive_meta>>)
          \/ SyncLoad(entry, "ok", <<>>)
          \/ \E ia \in {"not_installed", "raises"} : SyncLoad(entry, ia, <<>>)
    \/ \E dry_run \in BOOLEAN : PullFromArchive(dry_run)
    \/ CheckEntrySyncStatus

SpecSync == Init /\ [][NextSync]_vars

(***************************************************************************)
(* Properties                                                              *)
(***************************************************************************)
\* The content-hash set of entry i, read off the tables: every non-null md5sum
\* of a ZipContent row whose archive belongs to i.
HashSet(i) ==
    {c.md5sum : c \in {c \in zipcontents : c.zipArchive.entry = i /\ c.md5sum # None}}

\* The through table relates from to to.
Related(d, from, to) == \E r \in d : r[1] = from /\ r[2] = to

\* C1: in every reachable state the duplicates relation is symmetric (b is in
\* a.duplicates iff a is in b.duplicates) and irreflexive.
C1_SymmetricIrreflexive ==
    /\ \A a, b \in EntryIds : Related(duplicates, a, b) <=> Related(duplicates, b, a)
    /\ \A a \in EntryIds : ~Related(duplicates, a, a)
    /\ \A a \in Entries : a.id \notin duplicates_all(a)

\* A clear has removed one edge and another edge is still there.
C1_Witness ==
    last.op = "clear" /\ last.rows = 2 /\ duplicates # {}

C3_Symmetric ==
    \A a, b \in Entries : is_duplicate_of(a, b) = is_duplicate_of(b, a)

\* The hash set of one entry is a non-empty strict subset of another's.
C3_Witness ==
    \E a, b \in Entries :
        /\ HashSet(a.id) # {} /\ HashSet(a.id) # HashSet(b.id)
        /\ HashSet(a.id) \subseteq HashSet(b.id)
        /\ ~is_duplicate_of(a, b) /\ ~is_duplicate_of(b, a)

\* C4: is_duplicate_of(a, a) is false for every entry, whatever its hashes.
C4_Irreflexive ==
    \A a \in Entries : ~is_duplicate_of(a, a)

\* An entry with two known hashes, compared with itself.
C4_Witness ==
    \E a \in Entries : Cardinality(HashSet(a.id)) = 2 /\ ~is_duplicate_of(a, a)

\* C5: an entry with an empty hash set is a duplicate of nothing, also of
\* another entry with an empty hash set, and find_duplicates on it is empty.
C5_EmptyNeverDuplicate ==
    /\ \A a, b \in Entries :
          (HashSet(a.id) = {} \/ HashSet(b.id) = {}) => ~is_duplicate_of(a, b)
    /\ \A a \in Entries : HashSet(a.id) = {} => find_duplicates(a) = {}

\* Two entries whose only files have null hashes, and a third without archives.
C5_Witness ==
    \E a, b, c \in Entries :
        /\ a # b
        /\ \E z \in ziparchives_all(a) : zipcontent_set_all(z) # {}
        /\ \E z \in ziparchives_all(b) : zipcontent_set_all(z) # {}
        /\ HashSet(a.id) = {} /\ HashSet(b.id) = {}
        /\ ziparchives_all(c) = {}
        /\ ~is_duplicate_of(a, b) /\ find_duplicates(a) = {} /\ find_duplicates(c) = {}

\* C6: get_file_hashes returns exactly the non-null hashes of the files of the
\* entry's own archives.
C6_HashesExact ==
    \A a \in Entries : get_file_hashes(a) = HashSet(a.id)

\* An entry with two archives, one null hash and one known hash, next to an
\* entry with another hash.
C6_Witness ==
    \E a, b \in Entries :
        /\ Cardinality(ziparchives_all(a)) = 2
        /\ \E z \in ziparchives_all(a) : \E c \in zipcontent_set_all(z) : c.md5sum = None
        /\ Cardinality(get_file_hashes(a)) = 1
        /\ get_file_hashes(b) # {} /\ get_file_hashes(b) # get_file_hashes(a)

\* C7: find_duplicates(a) is exactly the set of the other entries b with
\* is_duplicate_of(a, b).
C7_FindsAll ==
    \A a \in Entries :
        find_duplicates(a) = {b.id : b \in {b \in Entries : b # a /\ is_duplicate_of(a, b)}}

\* An entry with two duplicates.
C7_Witness ==
    \E a \in Entries : Cardinality(find_duplicates(a)) = 2

\* a and x are exact duplicates: x is another entry and the two hash sets are
\* equal and not empty.
ExactDuplicates(a, x) ==
    /\ x.type = "Entry" /\ x.id # a.id
    /\ HashSet(a.id) # {} /\ HashSet(a.id) = HashSet(x.id)

\* Every entry id with its hash set.
HashSets == {<<i, HashSet(i)>> : i \in EntryIds}

\* C8: mark_as_duplicate(a, x) re-validates at call time. A call that returns
\* false and leaves the relation as it was is never a call on a pair that is
\* an exact duplicate then; every other call is one on an exact duplicate,
\* returns true and leaves the edge in both directions.
C8_MarkRevalidates ==
    [][last'.op = "mark_as_duplicate" =>
        IF last'.result = FALSE /\ duplicates' = duplicates
        THEN \A hs \in {HashSets} : \A p, q \in hs :
                (p[1] # q[1] /\ p[2] # {} /\ p[2] = q[2])
                    => ~MarkAsDuplicate(EntryObj(p[1]), EntryObj(q[1]))
        ELSE \A a \in Entries, x \in PyObjects :
                MarkAsDuplicate(a, x) =>
                    /\ ExactDuplicates(a, x)
                    /\ last'.result = TRUE
                    /\ Related(duplicates', a.id, x.id)
                    /\ Related(duplicates', x.id, a.id)]_vars

\* A refused mark on a relation that already holds an edge.
C8_Witness ==
    last.op = "mark_as_duplicate" /\ last.result = FALSE /\ duplicates # {}

\* C9: marking a pair that is already marked, in either argument order,
\* changes nothing, and a marked pair holds exactly one row in each direction.
C9_MarkIdempotent ==
    [][last'.op = "mark_as_duplicate" =>
        \A a, b \in Entries :
          /\ \/ duplicates' = duplicates
             \/ ~(Related(duplicates, a.id, b.id) \/ Related(duplicates, b.id, a.id))
             \/ ~(MarkAsDuplicate(a, b) \/ MarkAsDuplicate(b, a))
          /\ \/ /\ Cardinality(through_rows(duplicates', a.id, b.id)) = 1
                /\ Cardinality(through_rows(duplicates', b.id, a.id)) = 1
             \/ last'.result = FALSE
             \/ ~MarkAsDuplicate(a, b)]_vars

\* A second, successful mark of a pair that wrote no row.
C9_Witness ==
    last.op = "mark_as_duplicate" /\ last.result = TRUE /\ last.rows = 0

\* C10: clearing the duplicates of e removes every edge incident to e, in both
\* directions, and leaves the edges between other entries alone.
C10_ClearBothDirections ==
    [][last'.op = "clear" =>
        \A e \in Entries :
          \/ /\ \A r \in duplicates' : r[1] # e.id /\ r[2] # e.id
             /\ \A r \in duplicates : (r[1] # e.id /\ r[2] # e.id) => r \in duplicates'
             /\ duplicates' \subseteq duplicates
          \/ ~ClearDuplicates(e)]_vars

\* A clear of an entry with two duplicates, whose edge to each other remains.
C10_Witness ==
    last.op = "clear" /\ last.rows = 4 /\ duplicates # {}

\* C11: the duplicates relation changes only in a mark_as_duplicate or a clear
\* step; get_file_hashes, is_duplicate_of, find_duplicates and has_duplicates
\* leave it as it is, a mark_as_duplicate step removes no row (so no edge) and
\* a clear step adds none.
C11_Frame ==
    [][/\ duplicates' # duplicates => last'.op \in {"mark_as_duplicate", "clear"}
       /\ last'.op \in {"get_file_hashes", "is_duplicate_of", "find_duplicates",
                        "has_duplicates"} => duplicates' = duplicates
       /\ last'.op = "mark_as_duplicate" => duplicates \subseteq duplicates'
       /\ last'.op = "clear" => duplicates' \subseteq duplicates]_vars

\* A second mark_as_duplicate of an entry that already had a duplicate added
\* rows: the rows it found are the ones C11 says it keeps.
C11_Witness ==
    /\ last.op = "mark_as_duplicate" /\ last.rows = 2
    /\ \E i \in EntryIds : Cardinality({r \in duplicates : r[1] = i}) = 2

\* C12: is_duplicate_of(a, x) and mark_as_duplicate(a, x) with an x that is not
\* an Entry (None, a string, a number) do not raise, return False and leave
\* the tables as they were.
C12_InvalidInput ==
    [][(last'.op \in {"is_duplicate_of", "mark_as_duplicate"} /\ last'.arg # "Entry") =>
          /\ ~last'.raised
          /\ last'.result = FALSE
          /\ duplicates' = duplicates
          /\ ziparchives' = ziparchives /\ zipcontents' = zipcontents
          /\ \A a \in Entries, x \in NonEntries :
                ~is_duplicate_of_raises(a, x) /\ ~is_duplicate_of(a, x)]_vars

\* mark_as_duplicate was handed a string while the relation held rows.
C12_Witness ==
    /\ last.op = "mark_as_duplicate" /\ last.arg = "str"
    /\ last.result = FALSE /\ ~last.raised /\ duplicates # {}

\* The pairs of duplicates_found are pairwise different, as recorded and as
\* unordered pairs, and each is sorted.
PairsOnce(found) ==
    /\ \A i \in 1..Len(found) :
          /\ found[i].pair[1] < found[i].pair[2]
          /\ {found[i].pair[1], found[i].pair[2]} = {found[i].entry1, found[i].entry2}
    /\ \A i, j \in 1..Len(found) :
          i # j => /\ found[i].pair # found[j].pair
                   /\ {found[i].entry1, found[i].entry2} # {found[j].entry1, found[j].entry2}

\* A scan iteration leaves every duplicate it found in duplicates_found.
ScanRecordsAll ==
    cmd'.scanned # cmd.scanned =>
        \A entry \in cmd'.scanned \ cmd.scanned :
            \A d \in find_duplicates(EntryObj(entry)) :
                \E i \in 1..Len(cmd'.duplicates_found) :
                    {cmd'.duplicates_found[i].entry1, cmd'.duplicates_found[i].entry2}
                        = {entry, d}

\* An iteration of the mark loop is one call, for the next pair of the list.
MarkCallsNext ==
    cmd'.calls # cmd.calls =>
        /\ cmd'.calls = cmd.calls + 1
        /\ cmd'.duplicates_found = cmd.duplicates_found
        /\ last'.op = "mark_as_duplicate"
        /\ cmd'.marked_count = cmd.marked_count + IF last'.result THEN 1 ELSE 0

\* C13 as stated: no pair twice in duplicates_found, every scanned duplicate
\* in it, one mark_as_duplicate call per pair, and the number of pairs
\* reported as marked.
C13_ReportsPairCount ==
    [][/\ PairsOnce(cmd'.duplicates_found)
       /\ ScanRecordsAll
       /\ MarkCallsNext
       /\ cmd'.report = "marked" =>
             /\ cmd'.calls = Len(cmd'.duplicates_found)
             /\ cmd'.marked_count = Len(cmd'.duplicates_found)]_vars

\* C13, amended: no pair twice in duplicates_found, every scanned duplicate in
\* it, one mark_as_duplicate call per pair, and the number reported is the
\* number of those calls that returned True, each of which related its pair.
C13_PairsOnce ==
    [][/\ PairsOnce(cmd'.duplicates_found)
       /\ ScanRecordsAll
       /\ MarkCallsNext
       /\ cmd'.report = "marked" =>
             /\ cmd'.calls = Len(cmd'.duplicates_found)
             /\ cmd'.marked_count <= cmd'.calls
             /\ cmd'.marked_count <=
                   Cardinality({i \in 1..Len(cmd'.duplicates_found) :
                       Related(duplicates', cmd'.duplicates_found[i].entry1,
                               cmd'.duplicates_found[i].entry2)})]_vars

\* Three copies were scanned: three pairs found, three calls, three marked.
C13_Witness ==
    /\ cmd.report = "marked" /\ Len(cmd.duplicates_found) = 3
    /\ cmd.calls = 3 /\ cmd.marked_count = 3

\* C14: a call of the mark loop for a pair the scan reported, made when the
\* hash sets of the two entries are not equal any more, returns False and
\* adds no row.
C14_StaleScanSafe ==
    [][cmd'.calls # cmd.calls =>
          \A dup \in {cmd.duplicates_found[cmd.calls + 1]} :
              HashSet(dup.entry1) # HashSet(dup.entry2) =>
                  /\ last'.op = "mark_as_duplicate"
                  /\ last'.result = FALSE
                  /\ duplicates' = duplicates
                  /\ cmd'.marked_count = cmd.marked_count]_vars

\* The scan reported a pair, a file was ingested, and the mark loop's call
\* for the pair returned False.
C14_Witness ==
    /\ cmd.report = "marked" /\ cmd.calls = 1 /\ cmd.marked_count = 0
    /\ duplicates = {}
    /\ \A dup \in {cmd.duplicates_found[1]} : HashSet(dup.entry1) # HashSet(dup.entry2)

ValidContainer ==
    a2r.pc # "idle" /\ a2r.data_stream = encode_container(a2r.container)

\* The offset of the header of the k-th chunk: 8 + the sum over the chunks
\* before it of (8 + size)
RECURSIVE ChunkOffset(_, _)
ChunkOffset(chunks, k) ==
    IF k <= 1 THEN 8 ELSE ChunkOffset(chunks, k - 1) + 8 + chunks[k - 1].size

\* C16: on a valid container every chunk header is read at 8 + the sum of
\* (8 + size) over the chunks before it, whatever their tags; after each
\* chunk the cursor has moved by 8 + size; and when the call returns every
\* chunk was read and the cursor is at 8 + the sum over all chunks.
C16_Aligned ==
    ValidContainer =>
        /\ \A k \in 1..Len(a2r.headers_at) :
              a2r.headers_at[k] = ChunkOffset(a2r.container, k)
        /\ a2r.pc \in {"chunk", "returned", "raised"} =>
              /\ Len(a2r.headers_at) <= Len(a2r.container)
              /\ a2r.pos = ChunkOffset(a2r.container, Len(a2r.headers_at) + 1)
        /\ a2r.pc = "returned" =>
              /\ Len(a2r.headers_at) = Len(a2r.container)
              /\ a2r.pos = ChunkOffset(a2r.container, Len(a2r.container) + 1)
              /\ a2r.pos = Len(a2r.data_stream)

\* A container of an unknown chunk of 3 bytes and an INFO chunk was decoded
\* to the end.
C16_Witness ==
    /\ ValidContainer /\ a2r.pc = "returned"
    /\ Len(a2r.container) = 2
    /\ a2r.container[1].tag = SLVD_CHUNK_ID /\ a2r.container[1].size = 3
    /\ a2r.container[2].tag = INFO_CHUNK_ID
    /\ a2r.pos = 8 + (8 + 3) + (8 + a2r.container[2].size)

\* The container holds a chunk of this tag.
HasChunk(chunks, tag) == \E k \in 1..Len(chunks) : chunks[k].tag = tag

\* C17: the dictionary returned for a valid container has INFO not None
\* exactly when the container holds an INFO chunk, and META not None exactly
\* when it holds a META chunk.
C17_PresenceMatchesTags ==
    (ValidContainer /\ a2r.pc = "returned") =>
        /\ a2r.a2r_data.INFO # <<>> <=> HasChunk(a2r.container, INFO_CHUNK_ID)
        /\ a2r.a2r_data.META # <<>> <=> HasChunk(a2r.container, META_CHUNK_ID)

\* A container of an RWCP chunk and an INFO chunk of 40 bytes was decoded:
\* INFO is there and META is None.
C17_Witness ==
    /\ ValidContainer /\ a2r.pc = "returned"
    /\ Len(a2r.container) = 2
    /\ a2r.container[1].tag = RWCP_CHUNK_ID
    /\ a2r.container[2].tag = INFO_CHUNK_ID /\ a2r.container[2].size = 40
    /\ a2r.a2r_data.INFO # <<>> /\ a2r.a2r_data.META = <<>>

\* The chunks the decoder parses
IsInfoOrMeta(chunk) == chunk.tag \in {INFO_CHUNK_ID, META_CHUNK_ID}

\* C18: the call on a valid container ends as the call on the same container
\* without its RWCP and unknown chunks ends: with the same INFO and META
\* records, or with the same exception.
C18_OthersSkipped ==
    (ValidContainer /\ a2r.pc \in {"returned", "raised"}) =>
        \A without \in {read_a2r_datastream(
                            encode_container(SelectSeq(a2r.container, IsInfoOrMeta)))} :
            /\ without.pc = a2r.pc
            /\ without.raises = a2r.raises
            /\ without.a2r_data = a2r.a2r_data

\* An unknown chunk of size 0 sat before a META chunk, whose record was
\* returned.
C18_Witness ==
    /\ ValidContainer /\ a2r.pc = "returned"
    /\ Len(a2r.container) = 2
    /\ a2r.container[1].tag = SLVD_CHUNK_ID /\ a2r.container[1].size = 0
    /\ a2r.container[2].tag = META_CHUNK_ID
    /\ a2r.a2r_data.META # <<>>

\* The tag and the size the chunk header at offset h of the stream announces
HeaderTag(h) == SubSeq(a2r.data_stream, h + 1, h + 4)

HeaderSize(h) == unpack_I(SubSeq(a2r.data_stream, h + 5, h + 8))

\* The stream holds every byte of the payload the header at h announces
PayloadPresent(h) == h + 8 + HeaderSize(h) <= Len(a2r.data_stream)

\* C19: once the call has read a chunk header that announces more payload
\* bytes than the stream still holds, whatever the tag, the call has ended
\* with TruncatedContainerError and returns no record.
C19_TruncatedFails ==
    \A k \in DOMAIN a2r.headers_at :
        ~PayloadPresent(a2r.headers_at[k]) =>
            a2r.pc = "raised" /\ a2r.raises = "TruncatedContainerError"

\* The class of the error taxonomy an exception of the decoder falls in: the
\* source defines no exception classes of its own, struct.unpack_from raises
\* struct.error for a buffer that is too short and bytes.decode raises
\* UnicodeDecodeError for bytes that are not UTF-8.
ErrorClass(raises) ==
    IF raises = "struct.error" THEN "MalformedInfoChunkError"
    ELSE IF raises = "UnicodeDecodeError" THEN "EncodingError"
    ELSE raises

\* C20: once the call has read an INFO chunk whose payload is whole and
\* shorter than 37 bytes, the call has ended with MalformedInfoChunkError and
\* returns no record.
C20_ShortInfoRejected ==
    \A k \in DOMAIN a2r.headers_at :
        ( /\ HeaderTag(a2r.headers_at[k]) = INFO_CHUNK_ID
          /\ PayloadPresent(a2r.headers_at[k])
          /\ HeaderSize(a2r.headers_at[k]) < 37 ) =>
            a2r.pc = "raised" /\ ErrorClass(a2r.raises) = "MalformedInfoChunkError"

\* A whole INFO chunk of fewer than 37 bytes was read and the call ended with
\* the exception of bytes.decode
ShortInfoDecodeError ==
    /\ a2r.pc = "raised" /\ a2r.raises = "UnicodeDecodeError"
    /\ \E k \in DOMAIN a2r.headers_at :
          /\ HeaderTag(a2r.headers_at[k]) = INFO_CHUNK_ID
          /\ PayloadPresent(a2r.headers_at[k])
          /\ HeaderSize(a2r.headers_at[k]) < 37

\* A META chunk cut short was read and the call returned a META record
ShortMetaReturned ==
    /\ a2r.pc = "returned" /\ a2r.a2r_data.META # <<>>
    /\ \E k \in DOMAIN a2r.headers_at :
          /\ HeaderTag(a2r.headers_at[k]) = META_CHUNK_ID
          /\ ~PayloadPresent(a2r.headers_at[k])

\* The bytes the call read as the payload of the chunk whose header is at h
PayloadRead(h) == stream_read(a2r.data_stream, h + 8, HeaderSize(h))

\* C21: once the call has read a META chunk whose payload is not UTF-8, the
\* call has ended with an encoding error: it returns nothing, the INFO record
\* of an earlier chunk included.
C21_BadMetaFails ==
    \A k \in DOMAIN a2r.headers_at :
        ( /\ HeaderTag(a2r.headers_at[k]) = META_CHUNK_ID
          /\ ~utf8_decodes(PayloadRead(a2r.headers_at[k])) ) =>
            /\ a2r.pc = "raised"
            /\ ErrorClass(a2r.raises) = "EncodingError"
            /\ k = Len(a2r.headers_at)

\* An INFO chunk was decoded, then a META chunk that is not UTF-8 ended the
\* call with the exception.
C21_Witness ==
    /\ a2r.pc = "raised" /\ a2r.raises = "UnicodeDecodeError"
    /\ a2r.a2r_data.INFO # <<>>
    /\ Len(a2r.headers_at) = 2
    /\ HeaderTag(a2r.headers_at[2]) = META_CHUNK_ID

\* The chunks of the container that carry the tag, in their order
ChunksTagged(tag) == SelectSeq(a2r.container, LAMBDA chunk : chunk.tag = tag)

\* C22: when the call returns on a whole container, the INFO record is the
\* one parsed from the last INFO chunk and the META mapping is the one parsed
\* from the last META chunk alone.
C22_LastWins ==
    (ValidContainer /\ a2r.pc = "returned") =>
        /\ \A infos \in {ChunksTagged(INFO_CHUNK_ID)} :
              infos # <<>> =>
                  a2r.a2r_data.INFO = parse_a2r_info_chunk(infos[Len(infos)].payload).value
        /\ \A metas \in {ChunksTagged(META_CHUNK_ID)} :
              metas # <<>> =>
                  a2r.a2r_data.META = parse_a2r_meta_chunk(metas[Len(metas)].payload).value

\* Two META chunks with different keys were read and the mapping returned has
\* the key of the second only.
C22_Witness ==
    /\ ValidContainer /\ a2r.pc = "returned"
    /\ Len(ChunksTagged(META_CHUNK_ID)) = 2
    /\ a2r.container[1].payload # a2r.container[2].payload
    /\ DOMAIN a2r.a2r_data.META[1] = {<<117>>}

\* Two INFO chunks with different versions were read and the record returned
\* has the version of the second.
C22_WitnessInfo ==
    /\ ValidContainer /\ a2r.pc = "returned"
    /\ Len(ChunksTagged(INFO_CHUNK_ID)) = 2
    /\ a2r.container[1].payload[1] = 1
    /\ a2r.a2r_data.INFO # <<>> /\ a2r.a2r_data.INFO[1].info_version = 2

\* The mapping meta_data holds, for every line of lines with at least two
\* tab-separated fields, the first field under Trim as a key, and under each
\* key the second field under Trim of the last such line with that key.
MapsLines(lines, meta_data, Trim(_)) ==
    LET parts == [i \in DOMAIN lines |-> split(lines[i], 9)]
        pairs == {i \in DOMAIN lines : Len(parts[i]) >= 2}
    IN /\ DOMAIN meta_data = {Trim(parts[i][1]) : i \in pairs}
       /\ \A i \in pairs :
             (\A j \in pairs : j > i => Trim(parts[j][1]) # Trim(parts[i][1])) =>
                 meta_data[Trim(parts[i][1])] = Trim(parts[i][2])

Verbatim(str) == str

\* C23 as stated: the mapping returned for a META payload holds the first and
\* second field of each line of the payload with two fields or more, as they
\* are, the last line of a key giving its value.
C23_MetaFields ==
    (ValidContainer /\ a2r.pc \in {"returned", "raised"}
        /\ Len(a2r.container) = 1 /\ a2r.container[1].tag = META_CHUNK_ID) =>
        /\ a2r.pc = "returned"
        /\ MapsLines(split(a2r.container[1].payload, 10), a2r.a2r_data.META[1], Verbatim)

\* C23, amended: the payload is stripped of the whitespace around it, tabs
\* and newlines included, before it is cut in lines, and the first and second
\* field of a line are stripped of the whitespace around them.
C23_MetaFieldsStripped ==
    (ValidContainer /\ a2r.pc \in {"returned", "raised"}
        /\ Len(a2r.container) = 1 /\ a2r.container[1].tag = META_CHUNK_ID) =>
        /\ a2r.pc = "returned"
        /\ MapsLines(split(strip(a2r.container[1].payload), 10), a2r.a2r_data.META[1], strip)

\* "k<TAB><LF>k<TAB>k<TAB>" was decoded: the key k on two lines, first with an
\* empty value, and a tab at the end of the payload; the mapping returned
\* holds k under k.
C23_Witness ==
    /\ ValidContainer /\ a2r.pc = "returned"
    /\ Len(a2r.container) = 1
    /\ a2r.container[1].payload = <<107, 9, 10, 107, 9, 107, 9>>
    /\ a2r.a2r_data.META = <<[key \in {<<107>>} |-> <<107>>]>>

\* Fewer than 8 bytes are left at the cursor
HeaderShort == Len(stream_read(a2r.data_stream, a2r.pos, 8)) < 8

\* C24: the header read that gets fewer than 8 bytes ends the call with a
\* return of the records decoded so far and no exception, and every call that
\* has started ends, with a return or with an exception.
C24_Terminates ==
    /\ [][(a2r.pc = "chunk" /\ HeaderShort) =>
             /\ a2r'.pc = "returned"
             /\ a2r'.raises = "none"
             /\ a2r'.a2r_data = a2r.a2r_data]_vars
    /\ (a2r.pc = "file_header") ~> (a2r.pc \in {"returned", "raised"})

\* A META chunk was decoded, 3 bytes of a next header were left, and the call
\* returned the META record.
C24_Witness ==
    /\ a2r.pc = "returned" /\ a2r.a2r_data.META # <<>>
    /\ Len(a2r.headers_at) = 1
    /\ a2r.headers_at[1] + 8 + HeaderSize(a2r.headers_at[1]) + 3 = Len(a2r.data_stream)

\* A stream shorter than the file header was decoded: no record, no exception.
C24_WitnessNoHeader ==
    /\ a2r.pc = "returned" /\ Len(a2r.data_stream) < 8
    /\ a2r.a2r_data = [INFO |-> <<>>, META |-> <<>>]

\* Python equality of the byte parse_a2r_info_chunk returns with the boolean of
\* a record: 1 == True and 0 == False, no other integer equals a boolean
PyEqual(byte, bool) == byte = (IF bool THEN 1 ELSE 0)

\* C25: the record decoded from the INFO chunk encoded from a record equals
\* that record, whatever byte that is not 0 stands for true in the chunk.
C25_InfoRoundTrip ==
    (a2r.pc \in {"returned", "raised"}) =>
        \A record \in InfoRecords, true_wp \in TrueBytes, true_sync \in TrueBytes :
            a2r.container = <<Chunk(INFO_CHUNK_ID, encode_info(record, true_wp, true_sync))>> =>
                /\ a2r.pc = "returned"
                /\ a2r.a2r_data.INFO # <<>>
                /\ \A info \in {a2r.a2r_data.INFO[1]} :
                      /\ info.info_version = record.info_version
                      /\ info.creator = record.creator
                      /\ info.drive_type = record.drive_type
                      /\ PyEqual(info.write_protected, record.write_protected)
                      /\ PyEqual(info.synchronized, record.synchronized)
                      /\ info.hard_sector_count = record.hard_sector_count

\* A write protected record encoded with the byte 2 for true was decoded: the
\* record returned holds 2.
RawByteReturned ==
    /\ a2r.pc = "returned" /\ a2r.a2r_data.INFO # <<>>
    /\ Len(a2r.container) = 1 /\ a2r.container[1].tag = INFO_CHUNK_ID
    /\ a2r.container[1].payload[35] = 2
    /\ a2r.a2r_data.INFO[1].write_protected = 2

\* The round trip of the records whose true is written as the byte 1
InfoRoundTripCanonical ==
    (a2r.pc \in {"returned", "raised"}) =>
        \A record \in InfoRecords :
            a2r.container = <<Chunk(INFO_CHUNK_ID, encode_info(record, 1, 1))>> =>
                /\ a2r.pc = "returned"
                /\ a2r.a2r_data.INFO # <<>>
                /\ \A info \in {a2r.a2r_data.INFO[1]} :
                      /\ info.info_version = record.info_version
                      /\ info.creator = record.creator
                      /\ info.drive_type = record.drive_type
                      /\ PyEqual(info.write_protected, record.write_protected)
                      /\ PyEqual(info.synchronized, record.synchronized)
                      /\ info.hard_sector_count = record.hard_sector_count

\* The indices of the pairs of the table whose name is the label, case apart
Matching(label) ==
    {i \in DOMAIN LANGUAGES : lower(LANGUAGES[i][2]) = lower(label)}

\* C26: the language stored for a decoded META record is the code of the pair
\* of the table whose name is the label of the record, case apart, and None
\* when no name is or the record has no language; no exception is raised.
C26_LanguageCode ==
    metachunk.pc # "idle" =>
        /\ metachunk.pc = "created" /\ metachunk.raises = "none"
        /\ \A label \in {dict_get(metachunk.META, KeyLanguage)} :
              IF label = <<>> \/ Matching(label[1]) = {}
              THEN metachunk.language = <<>>
              ELSE \E i \in Matching(label[1]) : metachunk.language = <<LANGUAGES[i][1]>>

\* A META record with a title and no language was ingested and the
\* translation raised AttributeError.
NoLanguageRaised ==
    /\ metachunk.pc = "raised" /\ metachunk.raises = "AttributeError"
    /\ DOMAIN metachunk.META = {KeyTitle}

\* The translation of the records that have a language
LanguageCodeOfLabel ==
    (metachunk.pc # "idle" /\ KeyLanguage \in DOMAIN metachunk.META) =>
        /\ metachunk.pc = "created" /\ metachunk.raises = "none"
        /\ \A label \in {metachunk.META[KeyLanguage]} :
              IF Matching(label) = {}
              THEN metachunk.language = <<>>
              ELSE \E i \in Matching(label) : metachunk.language = <<LANGUAGES[i][1]>>

\* C27: a step of the command run with --dry-run, whatever the other options
\* and the answer to the prompt, leaves the duplicates relation as it is.
C27_DryRunFrame ==
    [][(cmd' # cmd /\ cmd'.dry_run) => duplicates' = duplicates]_vars

\* A dry run with --clear went to its end on a corpus with duplicates marked
\* before: it reported the pairs it would mark and the marks are there.
C27_Witness ==
    /\ cmd.dry_run /\ cmd.report = "would_mark"
    /\ last.op = "would_clear"
    /\ duplicates # {}

\* C28: in every state, two entries related by duplicates have the same set
\* of file hashes, and it is not empty.
C28_RelatedAreDuplicates ==
    \A r \in duplicates :
        HashSet(r[1]) = HashSet(r[2]) /\ HashSet(r[1]) # {}

\* Two entries are related, in both directions, and a file one of them got
\* after the mark gives it a hash the other has not.
StaleEdge ==
    \E r \in duplicates :
        /\ Related(duplicates, r[2], r[1])
        /\ HashSet(r[1]) # {} /\ HashSet(r[2]) # {}
        /\ HashSet(r[1]) # HashSet(r[2])

\* C29: when the bulk scan with --auto-mark is complete, every two distinct
\* entries that have archives and the same set of file hashes, not empty, are
\* related by duplicates, in both directions.
C29_ScanComplete ==
    (cmd.pc = "done" /\ ~cmd.dry_run) =>
        \A a, b \in EntryIds :
            ( /\ a # b
              /\ ziparchives_all(EntryObj(a)) # {} /\ ziparchives_all(EntryObj(b)) # {}
              /\ HashSet(a) # {} /\ HashSet(a) = HashSet(b) ) =>
                Related(duplicates, a, b)

\* The scan is complete on three copies of one disk: every pair is marked.
C29_Witness ==
    /\ cmd.pc = "done" /\ cmd.report = "marked" /\ cmd.marked_count = 3
    /\ \A a, b \in 1..3 : a # b => Related(duplicates, a, b)
    /\ HashSet(1) # {} /\ HashSet(1) = HashSet(2) /\ HashSet(2) = HashSet(3)

\* The call of pull_from_archive succeeded with dry_run False and a change
\* list that is not empty
PulledWithChanges ==
    /\ sync.pc \in {"pulled", "checked"}
    /\ ~sync.dry_run
    /\ sync.result.success
    /\ sync.result.changes # <<>>

====
